---- MODULE Spec2Model ----
(***************************************************************************)
(* Model of the codemap engine: the CachingService (six cache stores with  *)
(* TTL, dependency staleness, space-pressure eviction and a cleanup timer) *)
(* and the QueryEngineService (symbol index, query executor, result cache).*)
(***************************************************************************)
EXTENDS Integers, Sequences, FiniteSets, TLC

(* ------------------------------ bounds -------------------------------- *)
MaxTime == 2
MaxOps == 3
MaxOptionChanges == 1

(* ------------------------- program constants -------------------------- *)
DefaultMaxSize == 104857600
DefaultMaxEntries == 10000
DefaultTtl == 1800000
DefaultCleanupInterval == 300000
StoreCount == 6

(* ------------------------------ inputs -------------------------------- *)
Uris == {"a.ts"}
StoreOrder == <<"symbols", "references", "relationships", "graph-data", "layout", "query-result">>
StoreNames == {StoreOrder[i] : i \in 1..Len(StoreOrder)}
\* the set calls that are issued: <<store, key, value>>; a cached value is an
\* array of items, each item located in a file
SetInputs == {<<"symbols", "a.ts", <<"a.ts">>>>,
              <<"references", "s1", <<"a.ts", "a.ts">>>>,
              <<"relationships", "s1", <<"a.ts">>>>,
              <<"relationships", "s2", <<>>>>,
              <<"graph-data", "g1", <<"a.ts", "a.ts">>>>,
              <<"layout", "l1", <<>>>>,
              <<"query-result", "q1", <<"a.ts">>>>}
\* the <<store, key>> pairs that get is issued for
KeyInputs == {<<i[1], i[2]>> : i \in SetInputs}
\* the <<store, key>> pairs that invalidate is issued for
InvalidateInputs == {<<"symbols", "a.ts">>, <<"relationships", "s1">>, <<"relationships", "s2">>}
\* outcomes of fileService.stat(uri)
StatOutcomes == {[threw |-> TRUE, mtime |-> 0, ctime |-> 0],
                 [threw |-> FALSE, mtime |-> 0, ctime |-> 0],
                 [threw |-> FALSE, mtime |-> 1, ctime |-> 1]}
\* arguments of setCacheOptions
OptionPartials == {[ttl |-> 1, cleanupInterval |-> 1], [maxSize |-> 20, maxEntries |-> 6]}

VARIABLES
    now,            \* Date.now()
    fileStat,       \* what fileService.stat answers for each uri
    stores,         \* the six Map<string, CacheEntry>
    stats,          \* CachingService.stats
    options,        \* CachingService.options
    timerDue,       \* when the cleanup interval fires next
    lastOp,         \* the last event: a completed cache operation with what it returned
                    \* and fired, or the clock or a file moving on
    opCount,        \* completed get/set/invalidate/clear/optimize/cleanup operations
    optionChanges,  \* completed setCacheOptions calls
    symbolIndex,        \* QueryEngineService.symbolIndex: Map<file, IndexedSymbol[]>
    relationshipIndex,  \* QueryEngineService.relationshipIndex
    fileIndex,          \* QueryEngineService.fileIndex
    queryCache,         \* QueryEngineService.queryCache (LRUCache)
    queryLast,          \* the last completed query-engine operation and its result
    queryCount,         \* completed query-engine operations
    call,               \* one call of a side-effect-free public method: argument and answer
    layout,             \* GraphLayoutService: the call under way, its node objects and result
    channel,            \* CodemapChannel: the interval timers that are scheduled, disposal
    hook,               \* useCodemapData: its React state, refs and the fetches under way
    tasks,              \* the gets, sets and index operations suspended at an await, and
                        \* what a listener of onCacheEvicted saw during the last handler
    layoutHook          \* useGraphLayout: its React state, refs and the requests under way

cacheVars == <<fileStat, stores, stats, options, timerDue, lastOp, opCount, optionChanges>>

queryVars == <<symbolIndex, relationshipIndex, fileIndex, queryCache, queryLast, queryCount>>

\* the services beside the cache and the query engine
serviceVars == <<layout, channel, hook, tasks, layoutHook>>

vars == <<now, cacheVars, queryVars, call, serviceVars>>

(* --------------------------- helpers ---------------------------------- *)
RECURSIVE SumSizes(_)
SumSizes(seq) == IF seq = <<>> THEN 0 ELSE Head(seq).size + SumSizes(Tail(seq))

RECURSIVE Flatten(_)
Flatten(seqs) == IF seqs = <<>> THEN <<>> ELSE Head(seqs) \o Flatten(Tail(seqs))

RECURSIVE Dedup(_)
Dedup(seq) ==
    IF seq = <<>> THEN <<>>
    ELSE LET init == Dedup(SubSeq(seq, 1, Len(seq) - 1))
             x == seq[Len(seq)]
         IN IF \E i \in 1..Len(init) : init[i] = x THEN init ELSE Append(init, x)

\* Map<string, CacheEntry>: a sequence of entries in insertion order
MapHas(m, k) == \E i \in 1..Len(m) : m[i].key = k
MapGet(m, k) == m[CHOOSE i \in 1..Len(m) : m[i].key = k]
\* mutant: the whole map is cleared
MapClear(m, k) == <<>>

MapDelete(m, k) == SelectSeq(m, LAMBDA e : e.key # k)
MapSet(m, k, e) ==
    IF MapHas(m, k) THEN [i \in 1..Len(m) |-> IF m[i].key = k THEN e ELSE m[i]]
    ELSE Append(m, e)

NoDependencies == [defined |-> FALSE, list |-> <<>>]
DependencyList(l) == [defined |-> TRUE, list |-> l]

Absent == [found |-> FALSE, data |-> <<>>]
Found(d) == [found |-> TRUE, data |-> d]

(* ----------------------- CachingService internals --------------------- *)
fileModificationTimes == [u \in {} |-> 0]

JSONLength(data) == IF Len(data) = 0 THEN 2 ELSE 2 + 6 * Len(data) + (Len(data) - 1)

calculateSize(data) == JSONLength(data) * 2

AllEntries(st) ==
    Flatten([i \in 1..Len(StoreOrder) |->
        [j \in 1..Len(st[StoreOrder[i]]) |->
            [name |-> StoreOrder[i], key |-> st[StoreOrder[i]][j].key, entry |-> st[StoreOrder[i]][j]]]])

calculateTotalCacheSize(st) == SumSizes([i \in 1..Len(AllEntries(st)) |-> AllEntries(st)[i].entry])

Score(entry, t) == entry.accessCount * (t - entry.lastAccessed)

\* mutant: the entry count is not recomputed
updateStatsSizeOnly(st, s) ==
    [s EXCEPT !.totalSize = calculateTotalCacheSize(st),
              !.memoryUsage = calculateTotalCacheSize(st)]

updateStats(st, s) ==
    [s EXCEPT !.totalSize = calculateTotalCacheSize(st),
              !.entryCount = Len(AllEntries(st)),
              !.memoryUsage = calculateTotalCacheSize(st)]

\* mutant: no try/catch around stat
DependencyCheckUncaught(uri) ==
    LET stat == fileStat[uri]
        modifiedTime == IF stat.mtime # 0 THEN stat.mtime ELSE IF stat.ctime # 0 THEN stat.ctime ELSE 0
    IN IF stat.threw THEN "throw"
       ELSE IF modifiedTime > 0 THEN "stale" ELSE "ok"

\* one pass of the loop body of areDependenciesStale, try/catch included
DependencyCheck(uri) ==
    LET stat == fileStat[uri]
        modifiedTime == IF stat.mtime # 0 THEN stat.mtime ELSE IF stat.ctime # 0 THEN stat.ctime ELSE 0
        cachedTime == IF uri \in DOMAIN fileModificationTimes THEN fileModificationTimes[uri] ELSE 0
    IN IF stat.threw THEN "stale"
       ELSE IF modifiedTime > cachedTime THEN "stale" ELSE "ok"

RECURSIVE areDependenciesStale(_)
areDependenciesStale(deps) ==
    IF deps = <<>> THEN "ok"
    ELSE IF DependencyCheck(Head(deps)) # "ok" THEN DependencyCheck(Head(deps))
    ELSE areDependenciesStale(Tail(deps))

extractDependenciesFromRelationships(data) == <<>>
extractDependenciesFromGraphData(data) == Dedup(data)
extractDependenciesFromQueryResult(data) == Dedup(data)

\* the dependency argument each public setter passes to setToCache
SetterDependencies(store, key, data) ==
    CASE store = "symbols" -> DependencyList(<<key>>)
      [] store = "references" -> DependencyList(data)
      [] store = "relationships" -> DependencyList(extractDependenciesFromRelationships(data))
      [] store = "graph-data" -> DependencyList(extractDependenciesFromGraphData(data))
      [] store = "layout" -> NoDependencies
      [] store = "query-result" -> DependencyList(extractDependenciesFromQueryResult(data))

Event(type, key, reason) == [type |-> type, key |-> key, reason |-> reason]

\* outcome: how the operation ended; count: the entries it removed;
\* statsFired / evicted: the onCacheStatsUpdated / onCacheEvicted events it fired
OpRecord(op, store, key, data, outcome, result, count, statsFired, evicted) ==
    [op |-> op, store |-> store, key |-> key, data |-> data, outcome |-> outcome,
     result |-> result, count |-> count, statsFired |-> statsFired, evicted |-> evicted]

(* ------------------------------- state -------------------------------- *)
InitCache ==
    /\ fileStat \in [Uris -> StatOutcomes]
    /\ stores = [s \in StoreNames |-> <<>>]
    /\ stats = [totalSize |-> 0, entryCount |-> 0, hitCount |-> 0, missCount |-> 0,
                evictionCount |-> 0, memoryUsage |-> 0]
    /\ options = [maxSize |-> DefaultMaxSize, maxEntries |-> DefaultMaxEntries,
                  ttl |-> DefaultTtl, cleanupInterval |-> DefaultCleanupInterval]
    /\ timerDue = DefaultCleanupInterval
    /\ lastOp = OpRecord("init", "", "", <<>>, "done", Absent, 0, 0, <<>>)
    /\ opCount = 0
    /\ optionChanges = 0

InitQuery ==
    /\ symbolIndex = <<>>
    /\ relationshipIndex = <<>>
    /\ fileIndex = <<>>
    /\ queryCache = <<>>
    /\ queryLast =
        [op |-> "init",
         query |-> [symbols |-> [has |-> FALSE, v |-> <<>>],
                    relationships |-> [has |-> FALSE, v |-> <<>>],
                    where |-> [has |-> FALSE,
                               symbolType |-> [has |-> FALSE, v |-> <<>>],
                               namePattern |-> [has |-> FALSE, v |-> <<>>],
                               inPath |-> [has |-> FALSE, v |-> <<>>],
                               isExported |-> [has |-> FALSE, v |-> FALSE],
                               isDeprecated |-> [has |-> FALSE, v |-> FALSE],
                               includeTests |-> [has |-> FALSE, v |-> FALSE]],
                    traverse |-> [has |-> FALSE, depth |-> 0, direction |-> "both",
                                  relationshipTypes |-> [has |-> FALSE, v |-> <<>>]],
                    limit |-> [has |-> FALSE, v |-> 0],
                    offset |-> [has |-> FALSE, v |-> 0]],
         scope |-> [path |-> [has |-> FALSE, v |-> <<>>],
                    language |-> [has |-> FALSE, v |-> <<>>],
                    includeTests |-> [has |-> FALSE, v |-> FALSE]],
         uris |-> <<>>, outcome |-> "ok", fromCache |-> FALSE,
         result |-> [symbols |-> <<>>, relationships |-> <<>>, total |-> 0, cached |-> FALSE],
         fired |-> "none"]
    /\ queryCount = 0

\* no call of a side-effect-free method is under way
NoCall == [fn |-> "none", input |-> <<>>, output |-> <<>>, done |-> FALSE]

\* no layout call was made yet
NoLayoutResult ==
    [nodes |-> <<>>, edges |-> <<>>, algorithm |-> "", options |-> <<>>, iterations |-> 0,
     converged |-> FALSE]
NoRun ==
    [nodes |-> <<>>, edges |-> <<>>, options |-> <<>>, iteration |-> 0, converged |-> FALSE,
     maxVelocity |-> 0, caller |-> ""]
NoCluster == [list |-> <<>>, at |-> 0, x |-> 0, y |-> 0, spacing |-> 0]
IdleLayout ==
    [pc |-> "idle", fn |-> "none", algorithm |-> "", heap |-> <<>>,
     data |-> [nodes |-> <<>>, edges |-> <<>>], options |-> <<>>, random |-> <<>>,
     previous |-> NoLayoutResult, changedNodes |-> {}, run |-> NoRun,
     cluster |-> NoCluster, given |-> <<>>,
     result |-> NoLayoutResult, outcome |-> "none", fired |-> 0]
InitLayout == layout = IdleLayout

\* setInterval: a new timer with a handle of its own
SetInterval(ch, task) ==
    [ch EXCEPT !.timers = @ \cup {[id |-> ch.nextId, task |-> task]}, !.nextId = @ + 1]

\* clearInterval(handle)
ClearInterval(ch, handle) == [ch EXCEPT !.timers = {t \in @ : t.id # handle}]

\* CachingService.startCleanupTimer; the handle 0 stands for no handle
startCleanupTimer(ch) ==
    LET cleared == IF ch.cleanupTimer # 0 THEN ClearInterval(ch, ch.cleanupTimer) ELSE ch
    IN [SetInterval(cleared, "cleanup") EXCEPT !.cleanupTimer = cleared.nextId]

\* CodemapChannel.startPerformanceMonitoring: the handle is not kept
startPerformanceMonitoring(ch) == SetInterval(ch, "metrics")

\* the constructor of CodemapChannel: it builds the CachingService, whose
\* constructor starts the cleanup timer, then starts the metrics timer
InitChannel ==
    channel = startPerformanceMonitoring(startCleanupTimer(
                [timers |-> {}, nextId |-> 1, cleanupTimer |-> 0, disposed |-> FALSE,
                 metricsFired |-> 0]))

\* useCodemapData before its component is mounted
UnmountedHook ==
    [pc |-> "unmounted", refreshInterval |-> 0, query |-> "none",
     data |-> [has |-> FALSE, query |-> "", by |-> 0],
     loading |-> FALSE,
     error |-> [has |-> FALSE, by |-> 0],
     lastQueryRef |-> "",
     abortControllerRef |-> 0,
     requests |-> <<>>]
InitHook == hook = UnmountedHook

\* no operation is suspended, no listener was called; nextId numbers the entry
\* objects setToCache creates
NoTasks == [gets |-> <<>>, sets |-> <<>>, nextId |-> 1, observed |-> <<>>, index |-> <<>>]
InitTasks == tasks = NoTasks

\* useGraphLayout before any request: layout and quality are null, and so are
\* both refs; value and by name what a state holds and the request that set it
NoLayoutHook ==
    [layout |-> [value |-> "null", by |-> 0],
     quality |-> [value |-> "null", by |-> 0],
     loading |-> FALSE,
     error |-> FALSE,
     abortControllerRef |-> 0,
     aborted |-> {},
     currentDataRef |-> FALSE,
     issued |-> 0,
     requests |-> {}]
InitLayoutHook == layoutHook = NoLayoutHook

Init == now = 0 /\ InitCache /\ InitQuery /\ call = NoCall /\ InitLayout /\ InitChannel /\ InitHook
        /\ InitTasks /\ InitLayoutHook

\* a cache operation completes: the frame every one of them shares
CacheOpDone ==
    /\ opCount < MaxOps
    /\ opCount' = opCount + 1
    /\ UNCHANGED <<now, fileStat, optionChanges, queryVars, call, serviceVars>>

(* ---------------------------- getFromCache ---------------------------- *)
IsExpired(entry) == now - entry.timestamp > options.ttl

\* mutant: a hit also restarts the TTL
TouchRefreshing(entry) ==
    [entry EXCEPT !.lastAccessed = now, !.accessCount = @ + 1, !.timestamp = now]

Touch(entry) == [entry EXCEPT !.lastAccessed = now, !.accessCount = @ + 1]

GetFromCache(store, key) ==
    /\ CacheOpDone
    /\ UNCHANGED <<options, timerDue>>
    /\ IF ~MapHas(stores[store], key)
       THEN /\ stats' = [stats EXCEPT !.missCount = @ + 1]
            /\ stores' = stores
            /\ lastOp' = OpRecord("get", store, key, <<>>, "absent", Absent, 0, 0, <<>>)
       ELSE LET entry == MapGet(stores[store], key)
                removed == [stores EXCEPT ![store] = MapDelete(@, key)]
                staleness == IF entry.dependencies.defined
                             THEN areDependenciesStale(entry.dependencies.list)
                             ELSE "ok"
            IN IF IsExpired(entry)
               THEN /\ stores' = removed
                    /\ stats' = updateStats(removed, [stats EXCEPT !.missCount = @ + 1])
                    /\ lastOp' = OpRecord("get", store, key, <<>>, "expired", Absent, 1, 1, <<>>)
               ELSE IF staleness = "throw"
               THEN \* an exception escaping areDependenciesStale rejects the get
                    /\ stores' = stores
                    /\ stats' = stats
                    /\ lastOp' = OpRecord("get", store, key, <<>>, "raised", Absent, 0, 0, <<>>)
               ELSE IF staleness = "stale"
               THEN /\ stores' = removed
                    /\ stats' = updateStats(removed, [stats EXCEPT !.missCount = @ + 1])
                    /\ lastOp' = OpRecord("get", store, key, <<>>, "stale", Absent, 1, 1, <<>>)
               ELSE LET updated == [stores EXCEPT ![store] = MapSet(@, key, Touch(entry))]
                    IN /\ stores' = updated
                       /\ stats' = updateStats(updated, [stats EXCEPT !.hitCount = @ + 1])
                       /\ lastOp' = OpRecord("get", store, key, <<>>, "hit", Found(entry.data), 0, 1, <<>>)

(* ----------------------------- ensureSpace ---------------------------- *)
\* stable insertion of x into a sequence sorted by ascending score
RECURSIVE InsertAscending(_, _, _)
InsertAscending(sorted, x, t) ==
    IF sorted = <<>> THEN <<x>>
    ELSE IF Score(x.entry, t) - Score(sorted[Len(sorted)].entry, t) < 0
         THEN Append(InsertAscending(SubSeq(sorted, 1, Len(sorted) - 1), x, t), sorted[Len(sorted)])
         ELSE Append(sorted, x)

RECURSIVE SortAscending(_, _)
SortAscending(seq, t) ==
    IF seq = <<>> THEN <<>>
    ELSE InsertAscending(SortAscending(SubSeq(seq, 1, Len(seq) - 1), t), seq[Len(seq)], t)

\* mutant: the loop never breaks
EvictionLoopNoBreak(sorted, i, freedSpace, currentSize, requiredSize) == Len(sorted)

\* number of entries the eviction loop deletes before its break (or the end of the list)
RECURSIVE EvictionLoop(_, _, _, _, _)
EvictionLoop(sorted, i, freedSpace, currentSize, requiredSize) ==
    IF i > Len(sorted) THEN Len(sorted)
    ELSE IF currentSize - (freedSpace + sorted[i].entry.size) + requiredSize <= options.maxSize
         THEN i
         ELSE EvictionLoop(sorted, i + 1, freedSpace + sorted[i].entry.size, currentSize, requiredSize)

RECURSIVE DeleteAll(_, _)
DeleteAll(st, victims) ==
    IF victims = <<>> THEN st
    ELSE DeleteAll([st EXCEPT ![Head(victims).name] = MapDelete(@, Head(victims).key)], Tail(victims))

ensureSpace(st, requiredSize) ==
    LET currentSize == calculateTotalCacheSize(st)
        sorted == SortAscending(AllEntries(st), now)
        n == EvictionLoop(sorted, 1, 0, currentSize, requiredSize)
        victims == SubSeq(sorted, 1, n)
    IN IF currentSize + requiredSize <= options.maxSize
       THEN [stores |-> st, evicted |-> <<>>, statsFired |-> 0]
       ELSE [stores |-> DeleteAll(st, victims),
             evicted |-> [i \in 1..n |-> Event(victims[i].name, victims[i].key, "space-needed")],
             statsFired |-> 1]

(* ----------------------------- setToCache ----------------------------- *)
SetToCache(store, key, data) ==
    LET size == calculateSize(data)
        space == ensureSpace(stores, size)
        entry == [key |-> key, data |-> data, timestamp |-> now, lastAccessed |-> now,
                  accessCount |-> 1, size |-> size,
                  dependencies |-> SetterDependencies(store, key, data)]
        updated == [space.stores EXCEPT ![store] = MapSet(@, key, entry)]
    IN /\ CacheOpDone
       /\ stores' = updated
       /\ stats' = updateStats(updated, [stats EXCEPT !.evictionCount = @ + Len(space.evicted)])
       /\ lastOp' = OpRecord("set", store, key, data, "done", Absent, Len(space.evicted),
                             space.statsFired + 1, space.evicted)
       /\ UNCHANGED <<options, timerDue>>

(* --------------------------- invalidateCache -------------------------- *)
InvalidateCache(store, key, reason) ==
    /\ CacheOpDone
    /\ UNCHANGED <<options, timerDue>>
    /\ IF MapHas(stores[store], key)
       THEN LET removed == [stores EXCEPT ![store] = MapDelete(@, key)]
            IN /\ stores' = removed
               /\ stats' = updateStats(removed, [stats EXCEPT !.evictionCount = @ + 1])
               /\ lastOp' = OpRecord("invalidate", store, key, <<>>, "done", Absent, 1, 1,
                      <<Event(IF store = "symbols" THEN "symbols" ELSE "unknown", key, reason)>>)
       ELSE /\ stores' = stores
            /\ stats' = stats
            /\ lastOp' = OpRecord("invalidate", store, key, <<>>, "absent", Absent, 0, 0, <<>>)

\* the reason each public invalidate method passes
InvalidateReason(store) == IF store = "symbols" THEN "file-modified" ELSE "explicit"

(* ------------------------------ clearCache ---------------------------- *)
ClearCache ==
    LET cleared == [s \in StoreNames |-> <<>>]
    IN /\ CacheOpDone
       /\ stores' = cleared
       /\ stats' = updateStats(cleared, stats)
       /\ lastOp' = OpRecord("clear", "", "", <<>>, "done", Absent, Len(AllEntries(stores)), 1, <<>>)
       /\ UNCHANGED <<options, timerDue>>

(* ----------------------------- optimizeCache -------------------------- *)
\* stable insertion of x into a sequence sorted by descending score
RECURSIVE InsertDescending(_, _, _)
InsertDescending(sorted, x, t) ==
    IF sorted = <<>> THEN <<x>>
    ELSE IF Score(sorted[Len(sorted)], t) - Score(x, t) < 0
         THEN Append(InsertDescending(SubSeq(sorted, 1, Len(sorted) - 1), x, t), sorted[Len(sorted)])
         ELSE Append(sorted, x)

RECURSIVE SortDescending(_, _)
SortDescending(seq, t) ==
    IF seq = <<>> THEN <<>>
    ELSE InsertDescending(SortDescending(SubSeq(seq, 1, Len(seq) - 1), t), seq[Len(seq)], t)

\* mutant: the slice starts one entry late
TrimStoreOneMore(cache) ==
    LET entries == SortDescending(cache, now)
        toRemove == SubSeq(entries, (options.maxEntries \div StoreCount) + 2, Len(entries))
    IN IF Len(entries) * StoreCount > options.maxEntries
       THEN SelectSeq(cache, LAMBDA e : ~\E i \in 1..Len(toRemove) : toRemove[i].key = e.key)
       ELSE cache

\* what optimizeCache leaves of one store
TrimStore(cache) ==
    LET entries == SortDescending(cache, now)
        toRemove == SubSeq(entries, (options.maxEntries \div StoreCount) + 1, Len(entries))
    IN IF Len(entries) * StoreCount > options.maxEntries
       THEN SelectSeq(cache, LAMBDA e : ~\E i \in 1..Len(toRemove) : toRemove[i].key = e.key)
       ELSE cache

OptimizeCache ==
    LET trimmed == [s \in StoreNames |-> TrimStore(stores[s])]
    IN /\ CacheOpDone
       /\ stores' = trimmed
       /\ stats' = updateStats(trimmed, stats)
       /\ lastOp' = OpRecord("optimize", "", "", <<>>, "done", Absent,
                             Len(AllEntries(stores)) - Len(AllEntries(trimmed)), 1, <<>>)
       /\ UNCHANGED <<options, timerDue>>

(* ---------------------------- setCacheOptions ------------------------- *)
SetCacheOptions(newOptions) ==
    /\ optionChanges < MaxOptionChanges
    /\ optionChanges' = optionChanges + 1
    /\ options' = [f \in DOMAIN options |-> IF f \in DOMAIN newOptions THEN newOptions[f] ELSE options[f]]
    /\ timerDue' = now + options'.cleanupInterval
    /\ channel' = startCleanupTimer(channel)
    /\ lastOp' = OpRecord("options", "", "", <<>>, "done", Absent, 0, 0, <<>>)
    /\ UNCHANGED <<now, fileStat, stores, stats, opCount, queryVars, call, layout, hook, tasks, layoutHook>>

(* ----------------------------- performCleanup ------------------------- *)
\* the entries performCleanup collects the keys of, for one store
KeysToDelete(cache) ==
    SelectSeq(cache, LAMBDA entry :
        \/ now - entry.timestamp > options.ttl
        \/ /\ entry.dependencies.defined
           /\ (now - entry.lastAccessed) * 2 > options.ttl)

PerformCleanup ==
    LET doomed == [s \in StoreNames |-> KeysToDelete(stores[s])]
        kept == [s \in StoreNames |->
                    SelectSeq(stores[s], LAMBDA e :
                        ~\E i \in 1..Len(doomed[s]) : doomed[s][i].key = e.key)]
        events == Flatten([i \in 1..Len(StoreOrder) |->
                    [j \in 1..Len(doomed[StoreOrder[i]]) |->
                        Event(StoreOrder[i], doomed[StoreOrder[i]][j].key, "expired")]])
        cleanedCount == Len(events)
        counted == [stats EXCEPT !.evictionCount = @ + cleanedCount]
    IN /\ now >= timerDue
       /\ \E t \in channel.timers : t.task = "cleanup"
       /\ CacheOpDone
       /\ timerDue' = now + options.cleanupInterval
       /\ stores' = kept
       /\ stats' = IF cleanedCount > 0 THEN updateStats(kept, counted) ELSE counted
       /\ lastOp' = OpRecord("cleanup", "", "", <<>>, "done", Absent, cleanedCount,
                             IF cleanedCount > 0 THEN 1 ELSE 0, events)
       /\ UNCHANGED options

(* ----------------------------- environment ---------------------------- *)
Tick ==
    /\ now < MaxTime
    /\ now' = now + 1
    /\ lastOp' = OpRecord("tick", "", "", <<>>, "done", Absent, 0, 0, <<>>)
    /\ UNCHANGED <<fileStat, stores, stats, options, timerDue, opCount, optionChanges, queryVars, call, serviceVars>>

\* the file behind a uri is modified, removed or created
FileChange(uri, outcome) ==
    /\ fileStat[uri] # outcome
    /\ fileStat' = [fileStat EXCEPT ![uri] = outcome]
    /\ lastOp' = OpRecord("file-change", "", "", <<>>, "done", Absent, 0, 0, <<>>)
    /\ UNCHANGED <<now, stores, stats, options, timerDue, opCount, optionChanges, queryVars, call, serviceVars>>

Next ==
    \/ \E i \in KeyInputs : GetFromCache(i[1], i[2])
    \/ \E i \in SetInputs : SetToCache(i[1], i[2], i[3])
    \/ \E i \in InvalidateInputs : InvalidateCache(i[1], i[2], InvalidateReason(i[1]))
    \/ ClearCache
    \/ OptimizeCache
    \/ \E p \in OptionPartials : SetCacheOptions(p)
    \/ PerformCleanup
    \/ Tick
    \/ \E u \in Uris, o \in StatOutcomes : FileChange(u, o)

Spec == Init /\ [][Next]_vars

(* ======================== QueryEngineService ========================== *)
\* strings the engine looks into are sequences of one-character strings
UpperToLower ==
    [c \in {"A", "B", "C", "D", "E", "F", "G", "H", "I", "J", "K", "L", "M", "N", "O", "P",
            "Q", "R", "S", "T", "U", "V", "W", "X", "Y", "Z"} |->
        CASE c = "A" -> "a" [] c = "B" -> "b" [] c = "C" -> "c" [] c = "D" -> "d"
          [] c = "E" -> "e" [] c = "F" -> "f" [] c = "G" -> "g" [] c = "H" -> "h"
          [] c = "I" -> "i" [] c = "J" -> "j" [] c = "K" -> "k" [] c = "L" -> "l"
          [] c = "M" -> "m" [] c = "N" -> "n" [] c = "O" -> "o" [] c = "P" -> "p"
          [] c = "Q" -> "q" [] c = "R" -> "r" [] c = "S" -> "s" [] c = "T" -> "t"
          [] c = "U" -> "u" [] c = "V" -> "v" [] c = "W" -> "w" [] c = "X" -> "x"
          [] c = "Y" -> "y" [] c = "Z" -> "z"]

ToLowerChar(c) == IF c \in DOMAIN UpperToLower THEN UpperToLower[c] ELSE c

ToLowerCase(str) == [i \in 1..Len(str) |-> ToLowerChar(str[i])]

\* String.prototype.includes
Includes(str, sub) ==
    \E i \in 1..(Len(str) - Len(sub) + 1) : SubSeq(str, i, i + Len(sub) - 1) = sub

\* str.split('.').pop()
LastDotSegment(str) ==
    LET dots == {i \in 1..Len(str) : str[i] = "."}
    IN IF dots = {} THEN str
       ELSE SubSeq(str, (CHOOSE i \in dots : \A j \in dots : j <= i) + 1, Len(str))

\* new RegExp(pattern.replace(/\*/g, '.*'), 'i') matched from position j of str;
\* patterns are made of letters, digits, '_' and '*'
RECURSIVE MatchHere(_, _, _, _)
MatchHere(pattern, i, str, j) ==
    IF i > Len(pattern) THEN TRUE
    ELSE IF pattern[i] = "*"
         THEN \E j2 \in j..(Len(str) + 1) : MatchHere(pattern, i + 1, str, j2)
         ELSE /\ j <= Len(str)
              /\ ToLowerChar(str[j]) = ToLowerChar(pattern[i])
              /\ MatchHere(pattern, i + 1, str, j + 1)

\* mutant: the expression has to match from the first character on
RegexTestFromStart(pattern, str) == MatchHere(pattern, 1, str, 1)

\* regex.test(str): the expression is not anchored
RegexTest(pattern, str) == \E j \in 1..(Len(str) + 1) : MatchHere(pattern, 1, str, j)

Some(v) == [has |-> TRUE, v |-> v]
NoList == [has |-> FALSE, v |-> <<>>]
NoNumber == [has |-> FALSE, v |-> 0]
NoFlag == [has |-> FALSE, v |-> FALSE]
NoWhere == [has |-> FALSE, symbolType |-> NoList, namePattern |-> NoList, inPath |-> NoList,
            isExported |-> NoFlag, isDeprecated |-> NoFlag, includeTests |-> NoFlag]
NoTraverse == [has |-> FALSE, depth |-> 0, direction |-> "both", relationshipTypes |-> NoList]

(* ------------------------------ inputs -------------------------------- *)
FileA == <<"a", ".", "t", "s">>
FileTest == <<"t", "e", "s", "t", ".", "t", "s">>
FilePy == <<"b", ".", "p", "y">>
Files == {FileA, FileTest, FilePy}

NameFoo == <<"F", "o", "o">>
NameFooBar == <<"f", "o", "o", "_", "b", "a", "r">>

\* a raw symbol as the language service reports it
RawSymbol(name, kind, container, modifiers, children) ==
    [name |-> name, kind |-> kind, containerName |-> container, modifiers |-> modifiers,
     deprecated |-> FALSE, children |-> children]

\* what languageService.getDocumentSymbols answers: a symbol tree, or it throws
TreeFoo == <<RawSymbol(NameFoo, 1, <<>>, {"export"}, <<>>)>>
TreeFooWithChild ==
    <<RawSymbol(NameFoo, 1, <<>>, {"export"}, <<RawSymbol(NameFooBar, 7, NameFoo, {}, <<>>)>>)>>
ProviderAnswers == {[threw |-> TRUE, symbols |-> <<>>],
                    [threw |-> FALSE, symbols |-> TreeFoo],
                    [threw |-> FALSE, symbols |-> TreeFooWithChild]}

\* the uri lists updateIndex is called with
UpdateInputs == {<<FileA>>, <<FileTest>>, <<FilePy, FileA>>}

Scope(path, language, includeTests) == [path |-> path, language |-> language, includeTests |-> includeTests]
ScopeInputs == {Scope(NoList, NoList, NoFlag),
                Scope(NoList, NoList, Some(TRUE)),
                Scope(NoList, Some(<<"t", "y", "p", "e", "s", "c", "r", "i", "p", "t">>), NoFlag),
                Scope(Some(<<"b", ".">>), NoList, NoFlag)}

Query(symbols, relationships, where, traverse, limit, offset) ==
    [symbols |-> symbols, relationships |-> relationships, where |-> where,
     traverse |-> traverse, limit |-> limit, offset |-> offset]

Star == <<"*">>
QueryAll == Query(Some(<<Star>>), NoList, NoWhere, NoTraverse, NoNumber, NoNumber)
QueryInputs ==
    {QueryAll,
     Query(Some(<<Star>>), NoList, NoWhere, NoTraverse, Some(1), NoNumber),
     Query(Some(<<Star>>), Some(<<"calls">>), NoWhere, NoTraverse, NoNumber, Some(1)),
     Query(Some(<<Star>>), NoList, [NoWhere EXCEPT !.has = TRUE, !.symbolType = Some(<<"function">>)],
           NoTraverse, NoNumber, NoNumber),
     Query(Some(<<<<"F", "o", "o", "*">>>>), NoList, NoWhere,
           [has |-> TRUE, depth |-> 1, direction |-> "both", relationshipTypes |-> NoList],
           Some(1), NoNumber),
     Query(Some(<<>>), NoList, NoWhere, NoTraverse, NoNumber, NoNumber),
     Query(Some(<<Star>>), NoList, NoWhere, NoTraverse, Some(1), Some(1)),
     Query(Some(<<<<"F", "o", "o", "*">>>>), NoList, NoWhere, NoTraverse, NoNumber, NoNumber),
     Query(Some(<<<<"b", "a", "r">>>>), NoList, NoWhere, NoTraverse, NoNumber, NoNumber),
     Query(Some(<<<<"Z", "e", "d">>>>), Some(<<"calls">>), NoWhere,
           [has |-> TRUE, depth |-> 2, direction |-> "outgoing", relationshipTypes |-> NoList],
           Some(1), NoNumber)}

(* --------------------------- index helpers ---------------------------- *)
\* Map<string, V> keyed by file: a sequence of [key, value] in insertion order
IndexHas(m, k) == \E i \in 1..Len(m) : m[i].key = k
IndexGet(m, k) == m[CHOOSE i \in 1..Len(m) : m[i].key = k].value
IndexSet(m, k, v) ==
    IF IndexHas(m, k)
    THEN [i \in 1..Len(m) |-> IF m[i].key = k THEN [key |-> k, value |-> v] ELSE m[i]]
    ELSE Append(m, [key |-> k, value |-> v])
IndexDelete(m, k) == SelectSeq(m, LAMBDA e : e.key # k)

Digits(n) ==
    LET d == <<"0", "1", "2", "3", "4", "5", "6", "7", "8", "9">>
    IN IF n < 10 THEN <<d[n + 1]>> ELSE <<d[(n \div 10) + 1], d[(n % 10) + 1]>>

IdChars == {"a", "b", "c", "d", "e", "f", "g", "h", "i", "j", "k", "l", "m", "n", "o", "p", "q",
            "r", "s", "t", "u", "v", "w", "x", "y", "z", "0", "1", "2", "3", "4", "5", "6",
            "7", "8", "9", ":", "_", "/", "-"} \cup DOMAIN UpperToLower

generateSymbolId(symbol, fileUri) ==
    LET raw == fileUri \o <<":">> \o symbol.containerName \o <<":">> \o symbol.name
               \o <<":">> \o Digits(symbol.kind)
    IN [i \in 1..Len(raw) |-> IF raw[i] \in IdChars THEN raw[i] ELSE "_"]

convertSymbolKind(lsKind) ==
    CASE lsKind = 1 -> "class" [] lsKind = 2 -> "module" [] lsKind = 3 -> "namespace"
      [] lsKind = 4 -> "enum" [] lsKind = 5 -> "enumMember" [] lsKind = 6 -> "interface"
      [] lsKind = 7 -> "function" [] lsKind = 8 -> "variable" [] lsKind = 9 -> "constructor"
      [] lsKind = 10 -> "method" [] lsKind = 11 -> "property" [] lsKind = 12 -> "typeAlias"
      [] lsKind = 13 -> "typeParameter" [] lsKind = 14 -> "file" [] lsKind = 15 -> "folder"
      [] lsKind = 16 -> "package" [] OTHER -> "variable"

getLanguageFromUri(uri) ==
    LET extension == ToLowerCase(LastDotSegment(uri))
    IN CASE extension = <<"t", "s">> -> <<"t", "y", "p", "e", "s", "c", "r", "i", "p", "t">>
         [] extension = <<"t", "s", "x">> -> <<"t", "y", "p", "e", "s", "c", "r", "i", "p", "t">>
         [] extension = <<"j", "s">> -> <<"j", "a", "v", "a", "s", "c", "r", "i", "p", "t">>
         [] extension = <<"j", "s", "x">> -> <<"j", "a", "v", "a", "s", "c", "r", "i", "p", "t">>
         [] extension = <<"p", "y">> -> <<"p", "y", "t", "h", "o", "n">>
         [] extension = <<"j", "a", "v", "a">> -> <<"j", "a", "v", "a">>
         [] extension = <<"c", "p", "p">> -> <<"c", "p", "p">>
         [] extension = <<"c">> -> <<"c">>
         [] extension = <<"c", "s">> -> <<"c", "s", "h", "a", "r", "p">>
         [] extension = <<"g", "o">> -> <<"g", "o">>
         [] extension = <<"r", "s">> -> <<"r", "u", "s", "t">>
         [] OTHER -> <<"u", "n", "k", "n", "o", "w", "n">>

\* the Symbol indexSymbols builds from one raw symbol
IndexedSymbol(symbol, fileUri) ==
    [id |-> generateSymbolId(symbol, fileUri), name |-> symbol.name,
     kind |-> convertSymbolKind(symbol.kind), uri |-> fileUri,
     containerName |-> symbol.containerName, language |-> getLanguageFromUri(fileUri),
     isExported |-> "export" \in symbol.modifiers, isDeprecated |-> symbol.deprecated]

\* pre-order flattening of the raw tree
RECURSIVE indexSymbols(_, _)
indexSymbols(symbols, fileUri) ==
    IF symbols = <<>> THEN <<>>
    ELSE <<IndexedSymbol(Head(symbols), fileUri)>>
         \o indexSymbols(Head(symbols).children, fileUri)
         \o indexSymbols(Tail(symbols), fileUri)

extractRelationships(content, symbols) == <<>>

\* one relationship list per file of the symbol index, in its order
RECURSIVE buildRelationshipIndex(_, _, _)
buildRelationshipIndex(symIndex, relIndex, i) ==
    IF i > Len(symIndex) THEN relIndex
    ELSE buildRelationshipIndex(symIndex,
            IndexSet(relIndex, symIndex[i].key, extractRelationships(<<>>, symIndex[i].value)),
            i + 1)

getFilesInScope(scope) == <<>>

(* ------------------------------ scope --------------------------------- *)
TestWord == <<"t", "e", "s", "t">>

\* mutant: the test-file filter is dropped
isInScopeWithTests(uri, scope) ==
    IF scope.path.has /\ scope.path.v # <<>> /\ ~Includes(uri, scope.path.v) THEN FALSE
    ELSE IF scope.language.has /\ scope.language.v # <<>>
            /\ getLanguageFromUri(uri) # scope.language.v THEN FALSE
    ELSE TRUE

isInScope(uri, scope) ==
    IF scope.path.has /\ scope.path.v # <<>> /\ ~Includes(uri, scope.path.v) THEN FALSE
    ELSE IF scope.language.has /\ scope.language.v # <<>>
            /\ getLanguageFromUri(uri) # scope.language.v THEN FALSE
    ELSE IF ~(scope.includeTests.has /\ scope.includeTests.v) /\ Includes(uri, TestWord) THEN FALSE
    ELSE TRUE

(* --------------------- validateQuery / optimizeQuery ------------------ *)
isValidPath(path) == ~Includes(path, <<".", ".">>) /\ ~Includes(path, <<"~">>)

validateQuery(query) ==
    (IF query.symbols.has /\ Len(query.symbols.v) = 0
        THEN <<"Select symbols cannot be empty">> ELSE <<>>)
    \o (IF query.relationships.has /\ Len(query.relationships.v) = 0
        THEN <<"Select relationships cannot be empty">> ELSE <<>>)
    \o (IF query.where.has /\ query.where.symbolType.has /\ Len(query.where.symbolType.v) = 0
        THEN <<"Where symbolType cannot be empty">> ELSE <<>>)
    \o (IF query.where.has /\ query.where.inPath.has /\ query.where.inPath.v # <<>>
           /\ ~isValidPath(query.where.inPath.v)
        THEN <<"Invalid path in where clause">> ELSE <<>>)
    \o (IF query.traverse.has /\ query.traverse.depth < 1
        THEN <<"Traversal depth must be at least 1">> ELSE <<>>)
    \o (IF query.traverse.has /\ query.traverse.depth > 10
        THEN <<"Traversal depth cannot exceed 10">> ELSE <<>>)
    \o (IF query.limit.has /\ query.limit.v # 0 /\ query.limit.v < 1
        THEN <<"Limit must be at least 1">> ELSE <<>>)
    \o (IF query.offset.has /\ query.offset.v # 0 /\ query.offset.v < 0
        THEN <<"Offset cannot be negative">> ELSE <<>>)

MaxLimit == 1000
MaxDepth == 10
FallbackLimit == 100

optimizeWhereConditions(where) ==
    IF where.includeTests.has THEN where ELSE [where EXCEPT !.includeTests = Some(FALSE)]

optimizeTraversal(traversal) ==
    IF traversal.depth > MaxDepth THEN [traversal EXCEPT !.depth = MaxDepth] ELSE traversal

\* mutant: a limit above 1000 is kept
optimizeQueryUncapped(query) ==
    [query EXCEPT
        !.limit = IF ~query.limit.has \/ query.limit.v = 0 THEN Some(MaxLimit) ELSE query.limit,
        !.offset = IF ~query.offset.has \/ query.offset.v = 0 THEN Some(0) ELSE query.offset,
        !.where = IF query.where.has THEN optimizeWhereConditions(query.where) ELSE query.where,
        !.traverse = IF query.traverse.has THEN optimizeTraversal(query.traverse) ELSE query.traverse]

optimizeQuery(query) ==
    [query EXCEPT
        !.limit = IF ~query.limit.has \/ query.limit.v = 0 \/ query.limit.v > MaxLimit
                  THEN Some(MaxLimit) ELSE query.limit,
        !.offset = IF ~query.offset.has \/ query.offset.v = 0 THEN Some(0) ELSE query.offset,
        !.where = IF query.where.has THEN optimizeWhereConditions(query.where) ELSE query.where,
        !.traverse = IF query.traverse.has THEN optimizeTraversal(query.traverse) ELSE query.traverse]

(* ------------------------- executeQueryInternal ----------------------- *)
matchesSymbol(symbol, patterns, where) ==
    /\ \E i \in 1..Len(patterns) : RegexTest(patterns[i], symbol.name)
    /\ where.has =>
        /\ where.symbolType.has =>
                \E i \in 1..Len(where.symbolType.v) : where.symbolType.v[i] = symbol.kind
        /\ (where.namePattern.has /\ where.namePattern.v # <<>>) =>
                RegexTest(where.namePattern.v, symbol.name)
        /\ (where.inPath.has /\ where.inPath.v # <<>>) => Includes(symbol.uri, where.inPath.v)
        /\ where.isExported.has => where.isExported.v = symbol.isExported
        /\ where.isDeprecated.has => where.isDeprecated.v = symbol.isDeprecated

\* the values of the in-scope files of an index map, concatenated in map order
InScopeValues(index, scope) ==
    Flatten([i \in 1..Len(index) |->
                IF isInScope(index[i].key, scope) THEN index[i].value ELSE <<>>])

AllValues(index) == Flatten([i \in 1..Len(index) |-> index[i].value])

relationshipId(rel) == rel.sourceId \o <<"-">> \o rel.targetId

\* one pass of the innermost loop body of traverseRelationships
TraverseVisit(st, symbolId, rel, traversal) ==
    LET out == traversal.direction \in {"outgoing", "both"}
               /\ rel.sourceId = symbolId /\ ~\E i \in 1..Len(st.symbols) : st.symbols[i] = rel.targetId
        inc == traversal.direction \in {"incoming", "both"}
               /\ rel.targetId = symbolId /\ ~\E i \in 1..Len(st.symbols) : st.symbols[i] = rel.sourceId
        newSymbolId == IF inc THEN rel.sourceId ELSE rel.targetId
        typeOk == ~traversal.relationshipTypes.has
                  \/ \E i \in 1..Len(traversal.relationshipTypes.v) :
                        traversal.relationshipTypes.v[i] = rel.type
        unseen == ~\E i \in 1..Len(st.relationships) : st.relationships[i] = relationshipId(rel)
    IN IF (out \/ inc) /\ typeOk /\ unseen
       THEN [symbols |-> IF newSymbolId # <<>> THEN Append(st.symbols, newSymbolId) ELSE st.symbols,
             relationships |-> Append(st.relationships, relationshipId(rel)),
             newSymbols |-> IF newSymbolId # <<>> THEN Append(st.newSymbols, newSymbolId)
                            ELSE st.newSymbols]
       ELSE st

RECURSIVE TraverseLoop(_, _, _, _, _, _)
TraverseLoop(st, startingSymbols, i, rels, j, traversal) ==
    IF i > Len(startingSymbols) THEN st
    ELSE IF j > Len(rels) THEN TraverseLoop(st, startingSymbols, i + 1, rels, 1, traversal)
    ELSE TraverseLoop(TraverseVisit(st, startingSymbols[i], rels[j], traversal),
                      startingSymbols, i, rels, j + 1, traversal)

\* mutant: only the symbols found by the traversal are kept
traverseKeepingNewOnly(startingSymbols, traversal, visitedSymbols, visitedRelationships, scope, relIndex) ==
    LET st == TraverseLoop([symbols |-> visitedSymbols, relationships |-> visitedRelationships,
                            newSymbols |-> <<>>],
                           startingSymbols, 1, InScopeValues(relIndex, scope), 1, traversal)
    IN [symbols |-> st.newSymbols, relationships |-> st.relationships]

RECURSIVE traverseRelationships(_, _, _, _, _, _)
traverseRelationships(startingSymbols, traversal, visitedSymbols, visitedRelationships, scope, relIndex) ==
    IF traversal.depth = 0
    THEN [symbols |-> visitedSymbols, relationships |-> visitedRelationships]
    ELSE LET st == TraverseLoop([symbols |-> visitedSymbols, relationships |-> visitedRelationships,
                                 newSymbols |-> <<>>],
                                startingSymbols, 1, InScopeValues(relIndex, scope), 1, traversal)
         IN IF Len(st.newSymbols) > 0
            THEN traverseRelationships(st.newSymbols, [traversal EXCEPT !.depth = @ - 1],
                                       st.symbols, st.relationships, scope, relIndex)
            ELSE [symbols |-> st.symbols, relationships |-> st.relationships]

\* mutant: the lookup stops at the first file of the index
findSymbolByIdInFirstFile(id, symIndex) ==
    LET all == IF Len(symIndex) = 0 THEN <<>> ELSE symIndex[1].value
        hits == {i \in 1..Len(all) : all[i].id = id}
    IN IF hits = {} THEN <<>> ELSE <<all[CHOOSE i \in hits : \A j \in hits : i <= j]>>

\* findSymbolById: the first symbol of the index with that id, if any
findSymbolById(id, symIndex) ==
    LET all == AllValues(symIndex)
        hits == {i \in 1..Len(all) : all[i].id = id}
    IN IF hits = {} THEN <<>> ELSE <<all[CHOOSE i \in hits : \A j \in hits : i <= j]>>

\* id.split('-')
RECURSIVE SplitDash(_)
SplitDash(str) ==
    LET dashes == {i \in 1..Len(str) : str[i] = "-"}
        first == CHOOSE i \in dashes : \A j \in dashes : i <= j
    IN IF dashes = {} THEN <<str>>
       ELSE <<SubSeq(str, 1, first - 1)>> \o SplitDash(SubSeq(str, first + 1, Len(str)))

findRelationshipById(id, relIndex) ==
    LET parts == SplitDash(id)
        all == AllValues(relIndex)
        hits == {i \in 1..Len(all) :
                    /\ Len(parts) >= 2
                    /\ all[i].sourceId = parts[1]
                    /\ all[i].targetId = parts[2]}
    IN IF hits = {} THEN <<>> ELSE <<all[CHOOSE i \in hits : \A j \in hits : i <= j]>>

\* mutant: the slice always starts at the first item
SliceFromFirst(arr, start, end) == SubSeq(arr, 1, IF end < Len(arr) THEN end ELSE Len(arr))

\* array.slice(start, end) for 0 <= start
Slice(arr, start, end) == SubSeq(arr, start + 1, IF end < Len(arr) THEN end ELSE Len(arr))

Min(a, b) == IF a < b THEN a ELSE b

\* mutant: total counts what is returned
QueryResultCountingReturned(symbols, relationships, total) ==
    [symbols |-> symbols, relationships |-> relationships,
     total |-> Len(symbols) + Len(relationships), cached |-> FALSE]

QueryResult(symbols, relationships, total) ==
    [symbols |-> symbols, relationships |-> relationships, total |-> total, cached |-> FALSE]

executeQueryInternal(query, scope, symIndex, relIndex) ==
    LET matchedSymbols ==
            IF query.symbols.has
            THEN SelectSeq(InScopeValues(symIndex, scope),
                           LAMBDA sym : matchesSymbol(sym, query.symbols.v, query.where))
            ELSE <<>>
        matchedRelationships ==
            IF query.relationships.has
            THEN SelectSeq(InScopeValues(relIndex, scope),
                           LAMBDA rel : \E i \in 1..Len(query.relationships.v) :
                                            query.relationships.v[i] = rel.type)
            ELSE <<>>
        startIds == Dedup([i \in 1..Len(matchedSymbols) |-> matchedSymbols[i].id])
        startRels == Dedup([i \in 1..Len(matchedRelationships) |-> relationshipId(matchedRelationships[i])])
        visited == traverseRelationships(startIds, query.traverse, startIds, startRels, scope, relIndex)
        allSymbols == Flatten([i \in 1..Len(visited.symbols) |-> findSymbolById(visited.symbols[i], symIndex)])
        allRelationships == Flatten([i \in 1..Len(visited.relationships) |->
                                        findRelationshipById(visited.relationships[i], relIndex)])
        start == IF query.offset.has /\ query.offset.v # 0 THEN query.offset.v ELSE 0
        end == start + (IF query.limit.has /\ query.limit.v # 0 THEN query.limit.v ELSE FallbackLimit)
    IN IF query.traverse.has /\ Len(matchedSymbols) > 0
       THEN QueryResult(allSymbols, allRelationships, Len(allSymbols) + Len(allRelationships))
       ELSE QueryResult(Slice(matchedSymbols, start, Min(end, Len(matchedSymbols))),
                        Slice(matchedRelationships, start, Min(end, Len(matchedRelationships))),
                        Len(matchedSymbols) + Len(matchedRelationships))

(* ------------------------- the result cache --------------------------- *)
QueryCacheCapacity == 100

getQueryCacheKey(query, scope) == [query |-> query, scope |-> scope]

\* mutant: a hit leaves the entry where it is
LRUGetInPlace(cache, key) ==
    IF MapHas(cache, key)
    THEN [found |-> TRUE, value |-> MapGet(cache, key).value.value, cache |-> cache]
    ELSE [found |-> FALSE, value |-> QueryResult(<<>>, <<>>, 0), cache |-> cache]

\* LRUCache.get: a hit moves the entry to the end of the map
LRUGet(cache, key) ==
    IF MapHas(cache, key)
    THEN [found |-> TRUE, value |-> MapGet(cache, key).value.value,
          cache |-> Append(MapDelete(cache, key), MapGet(cache, key))]
    ELSE [found |-> FALSE, value |-> QueryResult(<<>>, <<>>, 0), cache |-> cache]

\* LRUCache.set: re-insert at the end, then drop the first key when over capacity
LRUSet(cache, key, value) ==
    LET added == Append(MapDelete(cache, key),
                        [key |-> key, value |-> [value |-> value, timestamp |-> now]])
    IN IF Len(added) > QueryCacheCapacity THEN Tail(added) ELSE added

\* mutant: the index always counts as stale
isIndexStaleAlways(scope) == TRUE

isIndexStale(scope) == FALSE

(* ---------------------------- index building -------------------------- *)
\* the loop of buildIndex / updateIndex over the files, answers[i] being what
\* the language service gives for files[i]
\* mutant: a file whose analysis fails loses its entries
RECURSIVE IndexFilesDroppingFailed(_, _, _, _)
IndexFilesDroppingFailed(idx, files, answers, i) ==
    IF i > Len(files) THEN idx
    ELSE IF answers[i].threw
    THEN IndexFilesDroppingFailed([symbols |-> IndexDelete(idx.symbols, files[i]),
                                   files |-> IndexDelete(idx.files, files[i])],
                                  files, answers, i + 1)
    ELSE LET indexedSymbols == indexSymbols(answers[i].symbols, files[i])
         IN IndexFilesDroppingFailed(
                [symbols |-> IndexSet(idx.symbols, files[i], indexedSymbols),
                 files |-> IndexSet(idx.files, files[i],
                                    [uri |-> files[i], lastModified |-> now,
                                     symbolCount |-> Len(indexedSymbols)])],
                files, answers, i + 1)

RECURSIVE IndexFiles(_, _, _, _)
IndexFiles(idx, files, answers, i) ==
    IF i > Len(files) THEN idx
    ELSE IF answers[i].threw THEN IndexFiles(idx, files, answers, i + 1)
    ELSE LET indexedSymbols == indexSymbols(answers[i].symbols, files[i])
         IN IndexFiles([symbols |-> IndexSet(idx.symbols, files[i], indexedSymbols),
                        files |-> IndexSet(idx.files, files[i],
                                           [uri |-> files[i], lastModified |-> now,
                                            symbolCount |-> Len(indexedSymbols)])],
                       files, answers, i + 1)

\* the three maps after buildIndex(scope)
buildIndex(scope) ==
    LET files == getFilesInScope(scope)
        idx == IndexFiles([symbols |-> <<>>, files |-> <<>>], files, <<>>, 1)
    IN [symbols |-> idx.symbols, files |-> idx.files,
        relationships |-> buildRelationshipIndex(idx.symbols, <<>>, 1)]

\* the three maps after ensureIndex(scope)
ensureIndex(scope) ==
    IF Len(symbolIndex) = 0 THEN buildIndex(scope)
    ELSE [symbols |-> symbolIndex, files |-> fileIndex, relationships |-> relationshipIndex]

(* ------------------------------ operations ---------------------------- *)
MaxQueryOps == 3

NoQuery == Query(NoList, NoList, NoWhere, NoTraverse, NoNumber, NoNumber)
NoScope == Scope(NoList, NoList, NoFlag)

QueryRecord(op, query, scope, uris, outcome, fromCache, result, fired) ==
    [op |-> op, query |-> query, scope |-> scope, uris |-> uris, outcome |-> outcome,
     fromCache |-> fromCache, result |-> result, fired |-> fired]

QueryOpDone ==
    /\ queryCount < MaxQueryOps
    /\ queryCount' = queryCount + 1
    /\ UNCHANGED <<now, cacheVars, call, serviceVars>>

executeQuery(query, scope) ==
    LET cacheKey == getQueryCacheKey(query, scope)
        cached == LRUGet(queryCache, cacheKey)
        validation == validateQuery(query)
        optimizedQuery == optimizeQuery(query)
        idx == ensureIndex(scope)
        result == executeQueryInternal(optimizedQuery, scope, idx.symbols, idx.relationships)
    IN IF cached.found /\ ~isIndexStale(scope)
          THEN /\ queryCache' = cached.cache
               /\ queryLast' = QueryRecord("executeQuery", query, scope, <<>>, "ok", TRUE,
                                           [cached.value EXCEPT !.cached = TRUE], "none")
               /\ UNCHANGED <<symbolIndex, relationshipIndex, fileIndex>>
          ELSE IF Len(validation) > 0
          THEN /\ queryLast' = QueryRecord("executeQuery", query, scope, <<>>,
                                           "QUERY_EXECUTION_FAILED", FALSE,
                                           QueryResult(<<>>, <<>>, 0), "none")
               /\ UNCHANGED <<symbolIndex, relationshipIndex, fileIndex, queryCache>>
          ELSE /\ symbolIndex' = idx.symbols
               /\ relationshipIndex' = idx.relationships
               /\ fileIndex' = idx.files
               /\ queryCache' = LRUSet(queryCache, cacheKey, [result EXCEPT !.cached = FALSE])
               /\ queryLast' = QueryRecord("executeQuery", query, scope, <<>>, "ok", FALSE,
                                           result, "onQueryExecuted")

ExecuteQuery(query, scope) == QueryOpDone /\ executeQuery(query, scope)

BuildIndex(scope) ==
    LET idx == buildIndex(scope)
    IN /\ QueryOpDone
       /\ symbolIndex' = idx.symbols
       /\ relationshipIndex' = idx.relationships
       /\ fileIndex' = idx.files
       /\ queryLast' = QueryRecord("buildIndex", NoQuery, scope, <<>>, "ok", FALSE,
                                   QueryResult(<<>>, <<>>, 0), "onIndexUpdated")
       /\ UNCHANGED queryCache

UpdateIndex(uris, answers) ==
    LET idx == IndexFiles([symbols |-> symbolIndex, files |-> fileIndex], uris, answers, 1)
    IN /\ QueryOpDone
       /\ symbolIndex' = idx.symbols
       /\ fileIndex' = idx.files
       /\ relationshipIndex' = buildRelationshipIndex(idx.symbols, relationshipIndex, 1)
       /\ queryLast' = QueryRecord("updateIndex", NoQuery, NoScope, uris, "ok", FALSE,
                                   QueryResult(<<>>, <<>>, 0), "none")
       /\ UNCHANGED queryCache

ClearIndex ==
    /\ QueryOpDone
    /\ symbolIndex' = <<>>
    /\ relationshipIndex' = <<>>
    /\ fileIndex' = <<>>
    /\ queryCache' = <<>>
    /\ queryLast' = QueryRecord("clearIndex", NoQuery, NoScope, <<>>, "ok", FALSE,
                                QueryResult(<<>>, <<>>, 0), "none")

QueryNext ==
    \/ \E query \in QueryInputs, scope \in ScopeInputs : ExecuteQuery(query, scope)
    \/ \E scope \in ScopeInputs : BuildIndex(scope)
    \/ \E uris \in UpdateInputs, answers \in [1..2 -> ProviderAnswers] : UpdateIndex(uris, answers)
    \/ ClearIndex

QuerySpec == Init /\ [][QueryNext]_vars

(* ------------------- filling the result cache ------------------------- *)
\* queries that differ in their limit only: each has a cache key of its own
MaxFillKeys == 102
MaxRepeats == 1
HotKey == 1

FillQuery(k) == Query(Some(<<Star>>), NoList, NoWhere, NoTraverse, Some(k), NoNumber)

\* how many of the queries FillQuery(1), FillQuery(2), ... were issued so far
FillCount ==
    LET limits == {queryCache[i].key.query.limit.v : i \in 1..Len(queryCache)}
    IN IF limits = {} THEN 0 ELSE CHOOSE m \in limits : \A l \in limits : l <= m

\* executeQuery with the next query not issued yet, or again with the first
\* one (at most MaxRepeats times)
FillExecute(k) ==
    /\ \/ k = FillCount + 1 /\ k <= MaxFillKeys
       \/ k = HotKey /\ k <= FillCount /\ queryCount - FillCount < MaxRepeats
    /\ queryCount' = queryCount + 1
    /\ UNCHANGED <<now, cacheVars, call, serviceVars>>
    /\ executeQuery(FillQuery(k), NoScope)

FillNext == \E k \in {HotKey, FillCount + 1} : FillExecute(k)

FillSpec == Init /\ [][FillNext]_vars

(* ------------- validateQuery and optimizeQuery on their own ----------- *)
\* the queries the two methods are called with: every combination of these fields
SymbolsInputs == {NoList, Some(<<>>), Some(<<Star>>)}
RelationshipsInputs == {NoList, Some(<<>>), Some(<<"calls">>)}
WhereInputs ==
    {NoWhere,
     [NoWhere EXCEPT !.has = TRUE],
     [NoWhere EXCEPT !.has = TRUE, !.symbolType = Some(<<>>)],
     [NoWhere EXCEPT !.has = TRUE, !.inPath = Some(<<".", ".", "/">>), !.includeTests = Some(TRUE)]}
TraverseInputs ==
    {NoTraverse} \cup
    {[has |-> TRUE, depth |-> d, direction |-> "both", relationshipTypes |-> NoList] :
        d \in {0, 1, 10, 11}}
LimitInputs == {NoNumber, Some(-1), Some(0), Some(1), Some(1000), Some(1001)}
OffsetInputs == {NoNumber, Some(-1), Some(0), Some(2)}

CallQueries ==
    {Query(sy, re, wh, tr, li, of) :
        sy \in SymbolsInputs, re \in RelationshipsInputs, wh \in WhereInputs,
        tr \in TraverseInputs, li \in LimitInputs, of \in OffsetInputs}

\* symbols of files as indexSymbols hands them to generateSymbolId
FileA_ == <<"a", "_", "t", "s">>
IdInputs ==
    {[symbol |-> RawSymbol(name, kind, container, {}, <<>>), fileUri |-> file] :
        name \in {NameFoo, NameFooBar}, kind \in {1, 7}, container \in {<<>>, NameFoo},
        file \in {FileA, FileA_, FilePy}}

CallInit ==
    /\ now = 0
    /\ InitCache
    /\ InitQuery
    /\ InitLayout
    /\ InitChannel
    /\ InitHook
    /\ InitTasks
    /\ InitLayoutHook
    /\ call \in {[fn |-> f, input |-> q, output |-> <<>>, done |-> FALSE] :
                    f \in {"validateQuery", "optimizeQuery"}, q \in CallQueries}
                \cup {[fn |-> "generateSymbolId", input |-> <<a, b>>, output |-> <<>>,
                       done |-> FALSE] : a \in IdInputs, b \in IdInputs}

\* validateQuery(query): answers the list of violations
ValidateQuery ==
    /\ call.fn = "validateQuery"
    /\ ~call.done
    /\ call' = [call EXCEPT !.output = validateQuery(call.input), !.done = TRUE]
    /\ UNCHANGED <<now, cacheVars, queryVars, serviceVars>>

\* optimizeQuery(query): answers a copy, the argument object is left as it was
OptimizeQuery ==
    /\ call.fn = "optimizeQuery"
    /\ ~call.done
    /\ call' = [call EXCEPT !.output = optimizeQuery(call.input), !.done = TRUE]
    /\ UNCHANGED <<now, cacheVars, queryVars, serviceVars>>

\* generateSymbolId for two symbols of the index
GenerateSymbolId ==
    /\ call.fn = "generateSymbolId"
    /\ ~call.done
    /\ call' = [call EXCEPT !.output = <<generateSymbolId(call.input[1].symbol,
                                                          call.input[1].fileUri),
                                         generateSymbolId(call.input[2].symbol,
                                                          call.input[2].fileUri)>>,
                            !.done = TRUE]
    /\ UNCHANGED <<now, cacheVars, queryVars, serviceVars>>

CallNext == ValidateQuery \/ OptimizeQuery \/ GenerateSymbolId

CallSpec == CallInit /\ [][CallNext]_vars

(* ------------------ traversal over stored relationships --------------- *)
\* a.ts declares Foo and its member foo_bar, b.py declares Foo
TraverseSymbolIndex ==
    IndexSet(IndexSet(<<>>, FileA, indexSymbols(TreeFooWithChild, FileA)),
             FilePy, indexSymbols(TreeFoo, FilePy))
TraverseIds == [i \in 1..Len(AllValues(TraverseSymbolIndex)) |-> AllValues(TraverseSymbolIndex)[i].id]

Relationship(sourceId, targetId, type) == [sourceId |-> sourceId, targetId |-> targetId, type |-> type]

\* the relationship list of a.ts: empty as the present extractor leaves it, or
\* holding relationships between the indexed symbols, two of them between the
\* same pair of symbols
TraverseRelationshipLists ==
    {<<>>,
     <<Relationship(TraverseIds[1], TraverseIds[2], "calls")>>,
     <<Relationship(TraverseIds[1], TraverseIds[2], "imports"),
       Relationship(TraverseIds[1], TraverseIds[2], "calls")>>,
     <<Relationship(TraverseIds[1], TraverseIds[2], "calls"),
       Relationship(TraverseIds[2], TraverseIds[3], "imports"),
       Relationship(TraverseIds[1], TraverseIds[2], "contains")>>}
TraverseTypeLists == {NoList, Some(<<"calls">>), Some(<<"imports">>)}
\* the traversal starts at every symbol, at the classes, or at the class of a.ts
TraverseWheres ==
    {NoWhere,
     [NoWhere EXCEPT !.has = TRUE, !.symbolType = Some(<<"class">>)],
     [NoWhere EXCEPT !.has = TRUE, !.symbolType = Some(<<"class">>), !.inPath = Some(<<"a", ".">>)]}
TraverseQueries ==
    {Query(Some(<<Star>>), selected, where,
           [has |-> TRUE, depth |-> depth, direction |-> direction, relationshipTypes |-> types],
           NoNumber, NoNumber) :
        where \in TraverseWheres, selected \in TraverseTypeLists, depth \in {1, 2},
        direction \in {"outgoing", "incoming", "both"}, types \in TraverseTypeLists}

TraverseInit ==
    /\ now = 0
    /\ InitCache
    /\ InitQuery
    /\ InitLayout
    /\ InitChannel
    /\ InitHook
    /\ InitTasks
    /\ InitLayoutHook
    /\ call \in {[fn |-> "executeQueryInternal",
                  input |-> [query |-> query, scope |-> NoScope,
                             symIndex |-> TraverseSymbolIndex,
                             relIndex |-> IndexSet(<<>>, FileA, list)],
                  output |-> QueryResult(<<>>, <<>>, 0), done |-> FALSE] :
                    query \in TraverseQueries, list \in TraverseRelationshipLists}

\* executeQueryInternal(query, scope) on the given index
ExecuteQueryInternal ==
    /\ call.fn = "executeQueryInternal"
    /\ ~call.done
    /\ call' = [call EXCEPT !.output = executeQueryInternal(call.input.query, call.input.scope,
                                                            call.input.symIndex,
                                                            call.input.relIndex),
                            !.done = TRUE]
    /\ UNCHANGED <<now, cacheVars, queryVars, serviceVars>>

TraverseNext == ExecuteQueryInternal

TraverseSpec == TraverseInit /\ [][TraverseNext]_vars

(* ====================== GraphLayoutService ============================ *)
\* Numbers are multiples of 0.01, so 100 stands for 1 and 10 for the 0.1 of
\* the convergence test; products and quotients round down to that grid.
DefaultOptions ==
    [width |-> 100000, height |-> 80000, nodeSpacing |-> 10000, iterations |-> 100,
     velocityDecay |-> 80]

\* { ...defaultOptions, ...options }
MergeOptions(defaults, given) ==
    [f \in DOMAIN defaults |-> IF f \in DOMAIN given THEN given[f] ELSE defaults[f]]

GraphNode(id, x, y, vx, vy, fx, fy) ==
    [id |-> id, x |-> x, y |-> y, vx |-> vx, vy |-> vy, fx |-> fx, fy |-> fy]
GraphEdge(source, target) == [source |-> source, target |-> target]

\* node.x || 0
OrZero(n) == IF n.has THEN n.v ELSE 0

Max(a, b) == IF a > b THEN a ELSE b

\* Math.sqrt, rounded down: the largest r between lo and hi with r * r <= n
RECURSIVE SqrtBetween(_, _, _)
SqrtBetween(n, lo, hi) ==
    IF lo >= hi THEN lo
    ELSE LET mid == (lo + hi + 1) \div 2
         IN IF mid * mid <= n THEN SqrtBetween(n, mid, hi) ELSE SqrtBetween(n, lo, mid - 1)
Sqrt(n) == SqrtBetween(n, 0, 46340)

ConvergenceThreshold == 10
MaxSpeed == 5000
Margin == 5000

\* what velocity * damping + force can come to for a node in one pass: the sum
\* of the repulsive, attractive and gravity forces is arithmetic over square
\* roots of coordinate differences, and each of these is a value it can take
VelocityChoices == {<<0, 0>>, <<0, 8>>, <<0, 10>>, <<0, 6000>>}

\* the first inner loop of the while body for node i: the new velocity, capped
NewVelocity(node, v) ==
    LET speed == Sqrt(v[1] * v[1] + v[2] * v[2])
    IN IF node.fx.has /\ node.fy.has
       THEN [node |-> node, speed |-> 0]
       ELSE IF speed > MaxSpeed
       THEN [node |-> [node EXCEPT !.vx = Some((v[1] * MaxSpeed) \div speed),
                                   !.vy = Some((v[2] * MaxSpeed) \div speed)],
             speed |-> speed]
       ELSE [node |-> [node EXCEPT !.vx = Some(v[1]), !.vy = Some(v[2])], speed |-> speed]

\* the second inner loop for one node: the position moves and the velocity decays
Clamp(lo, hi, v) == Max(lo, IF hi < v THEN hi ELSE v)
MoveNode(node, opts) ==
    [node EXCEPT
        !.x = IF node.fx.has THEN node.x
              ELSE Some(Clamp(Margin, opts.width - Margin, OrZero(node.x) + OrZero(node.vx))),
        !.y = IF node.fy.has THEN node.y
              ELSE Some(Clamp(Margin, opts.height - Margin, OrZero(node.y) + OrZero(node.vy))),
        !.vx = Some((OrZero(node.vx) * opts.velocityDecay) \div 100),
        !.vy = Some((OrZero(node.vy) * opts.velocityDecay) \div 100)]

\* mutant: the pass reports the smallest speed instead of the largest
ForceIterationLeastSpeed(heap, refs, opts, choice) ==
    LET at(r) == CHOOSE i \in 1..Len(refs) : refs[i] = r
        moved(r) == NewVelocity(heap[r], IF at(r) \in DOMAIN choice THEN choice[at(r)]
                                         ELSE <<0, 0>>)
        speeds == {moved(refs[i]).speed : i \in 1..Len(refs)}
    IN [heap |-> [r \in 1..Len(heap) |->
                    IF \E i \in 1..Len(refs) : refs[i] = r
                    THEN MoveNode(moved(r).node, opts)
                    ELSE heap[r]],
        maxVelocity |-> IF speeds = {} THEN 0 ELSE CHOOSE m \in speeds : \A x \in speeds : m <= x]

\* one pass of the while loop of computeForceDirectedLayout over the node
\* objects refs of heap, choice[i] being the velocity the forces give node i
ForceIteration(heap, refs, opts, choice) ==
    LET at(r) == CHOOSE i \in 1..Len(refs) : refs[i] = r
        moved(r) == NewVelocity(heap[r], IF at(r) \in DOMAIN choice THEN choice[at(r)]
                                         ELSE <<0, 0>>)
        speeds == {moved(refs[i]).speed : i \in 1..Len(refs)}
    IN [heap |-> [r \in 1..Len(heap) |->
                    IF \E i \in 1..Len(refs) : refs[i] = r
                    THEN MoveNode(moved(r).node, opts)
                    ELSE heap[r]],
        maxVelocity |-> IF speeds = {} THEN 0 ELSE CHOOSE m \in speeds : \A x \in speeds : x <= m]

\* nodes.find(n => n.id === nodeId): the first node object with that id, 0 if none
FindNode(heap, refs, nodeId) ==
    LET hits == {i \in 1..Len(refs) : heap[refs[i]].id = nodeId}
    IN IF hits = {} THEN 0 ELSE refs[CHOOSE i \in hits : \A j \in hits : i <= j]

\* mutant: the target of an edge is queued as soon as one predecessor is placed
RECURSIVE RelaxEdgesEager(_, _, _, _)
RelaxEdgesEager(st, nodeId, edges, k) ==
    IF k > Len(edges) THEN st
    ELSE IF edges[k].source = nodeId
    THEN LET targetInDegree == st.inDegree[edges[k].target] - 1
         IN RelaxEdgesEager([st EXCEPT !.inDegree[edges[k].target] = targetInDegree,
                                       !.queue = Append(@, edges[k].target)],
                            nodeId, edges, k + 1)
    ELSE RelaxEdgesEager(st, nodeId, edges, k + 1)

\* the edge loop of buildHierarchyLevels for a node just put on a level
RECURSIVE RelaxEdges(_, _, _, _)
RelaxEdges(st, nodeId, edges, k) ==
    IF k > Len(edges) THEN st
    ELSE IF edges[k].source = nodeId
    THEN LET targetInDegree == st.inDegree[edges[k].target] - 1
         IN RelaxEdges([st EXCEPT !.inDegree[edges[k].target] = targetInDegree,
                                  !.queue = IF targetInDegree = 0
                                            THEN Append(@, edges[k].target) ELSE @],
                       nodeId, edges, k + 1)
    ELSE RelaxEdges(st, nodeId, edges, k + 1)

\* the for loop over the levelSize entries at the head of the queue
RECURSIVE FillLevel(_, _, _, _, _)
FillLevel(st, heap, refs, edges, levelSize) ==
    IF levelSize = 0 THEN st
    ELSE LET nodeId == Head(st.queue)
             node == FindNode(heap, refs, nodeId)
             shifted == [st EXCEPT !.queue = Tail(@)]
         IN IF node # 0 /\ nodeId \notin st.visited
            THEN FillLevel(RelaxEdges([shifted EXCEPT !.currentLevel = Append(@, node),
                                                      !.visited = @ \cup {nodeId}],
                                      nodeId, edges, 1),
                           heap, refs, edges, levelSize - 1)
            ELSE FillLevel(shifted, heap, refs, edges, levelSize - 1)

\* the while loop over the queue
RECURSIVE LevelLoop(_, _, _, _)
LevelLoop(st, heap, refs, edges) ==
    IF Len(st.queue) = 0 THEN st
    ELSE LET filled == FillLevel([st EXCEPT !.currentLevel = <<>>], heap, refs, edges,
                                 Len(st.queue))
         IN LevelLoop([filled EXCEPT !.levels = IF Len(filled.currentLevel) > 0
                                                 THEN Append(@, filled.currentLevel) ELSE @],
                      heap, refs, edges)

\* the levels of node objects, the last one holding what the sort did not reach
buildHierarchyLevels(heap, refs, edges) ==
    LET ids == {heap[refs[i]].id : i \in 1..Len(refs)}
                \cup {edges[k].target : k \in 1..Len(edges)}
        inDegree == [id \in ids |-> Cardinality({k \in 1..Len(edges) : edges[k].target = id})]
        queue == SelectSeq([i \in 1..Len(refs) |-> heap[refs[i]].id],
                           LAMBDA id : inDegree[id] = 0)
        done == LevelLoop([queue |-> queue, visited |-> {}, inDegree |-> inDegree,
                           levels |-> <<>>, currentLevel |-> <<>>], heap, refs, edges)
        remaining == SelectSeq(refs, LAMBDA r : heap[r].id \notin done.visited)
    IN IF Len(remaining) > 0 THEN Append(done.levels, remaining) ELSE done.levels

\* the edge loop of identifyClusters: unvisited neighbours go on the stack
RECURSIVE PushNeighbours(_, _, _, _, _)
PushNeighbours(stack, visited, nodeId, edges, k) ==
    IF k > Len(edges) THEN stack
    ELSE IF edges[k].source = nodeId /\ edges[k].target \notin visited
    THEN PushNeighbours(Append(stack, edges[k].target), visited, nodeId, edges, k + 1)
    ELSE IF edges[k].target = nodeId /\ edges[k].source \notin visited
    THEN PushNeighbours(Append(stack, edges[k].source), visited, nodeId, edges, k + 1)
    ELSE PushNeighbours(stack, visited, nodeId, edges, k + 1)

\* the while loop over the stack
RECURSIVE GrowCluster(_, _, _, _)
GrowCluster(st, heap, refs, edges) ==
    IF Len(st.stack) = 0 THEN st
    ELSE LET nodeId == st.stack[Len(st.stack)]
             popped == SubSeq(st.stack, 1, Len(st.stack) - 1)
             currentNode == FindNode(heap, refs, nodeId)
             visited == st.visited \cup {nodeId}
         IN IF nodeId \in st.visited
            THEN GrowCluster([st EXCEPT !.stack = popped], heap, refs, edges)
            ELSE GrowCluster([stack |-> PushNeighbours(popped, visited, nodeId, edges, 1),
                              visited |-> visited,
                              cluster |-> IF currentNode # 0
                                          THEN Append(st.cluster, currentNode)
                                          ELSE st.cluster],
                             heap, refs, edges)

\* the for loop over the nodes
RECURSIVE ClusterLoop(_, _, _, _, _, _)
ClusterLoop(clusters, visited, heap, refs, edges, i) ==
    IF i > Len(refs) THEN clusters
    ELSE IF heap[refs[i]].id \in visited
    THEN ClusterLoop(clusters, visited, heap, refs, edges, i + 1)
    ELSE LET grown == GrowCluster([stack |-> <<heap[refs[i]].id>>, visited |-> visited,
                                   cluster |-> <<>>], heap, refs, edges)
         IN ClusterLoop(IF Len(grown.cluster) > 0 THEN Append(clusters, grown.cluster)
                        ELSE clusters,
                        grown.visited, heap, refs, edges, i + 1)

identifyClusters(heap, refs, edges) == ClusterLoop(<<>>, {}, heap, refs, edges, 1)

\* heap with the node objects refs rewritten by f(position in refs, node)
Rewrite(heap, refs, f(_, _)) ==
    [r \in 1..Len(heap) |->
        IF \E i \in 1..Len(refs) : refs[i] = r
        THEN f(CHOOSE i \in 1..Len(refs) : refs[i] = r, heap[r])
        ELSE heap[r]]

AtRest(node, x, y) == [node EXCEPT !.x = Some(x), !.y = Some(y), !.vx = Some(0), !.vy = Some(0)]

\* the node objects after computeHierarchicalLayout placed them level by level
computeHierarchicalLayout(heap, refs, edges, opts) ==
    LET levels == buildHierarchyLevels(heap, refs, edges)
        levelSpacing == opts.width \div (Len(levels) + 1)
        placed(r, node) ==
            LET hits == {l \in 1..Len(levels) : \E n \in 1..Len(levels[l]) : levels[l][n] = r}
                levelIndex == CHOOSE l \in hits : \A m \in hits : m <= l
                level == levels[levelIndex]
                hitsIn == {n \in 1..Len(level) : level[n] = r}
                nodeIndex == CHOOSE n \in hitsIn : \A m \in hitsIn : m <= n
                startX == (opts.width - Len(level) * opts.nodeSpacing) \div 2
            IN IF hits = {} THEN node
               ELSE AtRest(node, startX + (nodeIndex - 1) * opts.nodeSpacing,
                           levelSpacing * levelIndex)
    IN [r \in 1..Len(heap) |-> placed(r, heap[r])]

\* cos and sin of i * 2 * PI / n in thousandths, for the node counts of the model
CosSin(i, n) ==
    CASE n = 1 -> <<1000, 0>>
      [] n = 2 -> <<<<1000, 0>>, <<-1000, 0>>>>[i + 1]
      [] n = 3 -> <<<<1000, 0>>, <<-500, 866>>, <<-500, -866>>>>[i + 1]
      [] OTHER -> <<<<1000, 0>>, <<0, 1000>>, <<-1000, 0>>, <<0, -1000>>>>[i + 1]

computeCircularLayout(heap, refs, opts) ==
    LET radius == (IF opts.width < opts.height THEN opts.width ELSE opts.height) \div 2 - 10000
        placed(i, node) ==
            AtRest(node, opts.width \div 2 + (radius * CosSin(i - 1, Len(refs))[1]) \div 1000,
                   opts.height \div 2 + (radius * CosSin(i - 1, Len(refs))[2]) \div 1000)
    IN Rewrite(heap, refs, placed)

\* Math.ceil(a / b) for positive b
CeilDiv(a, b) == (a + b - 1) \div b

computeGridLayout(heap, refs, opts) ==
    LET n == Len(refs)
        cols == CHOOSE c \in 0..n : c * c >= n /\ \A d \in 0..n : d * d >= n => c <= d
        rows == CeilDiv(n, cols)
        cellWidth == opts.width \div cols
        cellHeight == opts.height \div rows
        placed(i, node) ==
            AtRest(node, ((i - 1) % cols) * cellWidth + cellWidth \div 2,
                   ((i - 1) \div cols) * cellHeight + cellHeight \div 2)
    IN Rewrite(heap, refs, placed)

\* Math.random() in hundredths, one pair per node object
RandomChoices == {0, 50}

computeRandomLayout(heap, refs, opts, rnd) ==
    LET placed(i, node) ==
            AtRest(node, 10000 + (rnd[refs[i]][1] * (opts.width - 20000)) \div 100,
                   10000 + (rnd[refs[i]][2] * (opts.height - 20000)) \div 100)
    IN Rewrite(heap, refs, placed)

\* getNodeBounds: every node is a square of side 50 about its position
getNodeBounds(heap, refs) ==
    LET xs == {OrZero(heap[refs[i]].x) : i \in 1..Len(refs)}
        ys == {OrZero(heap[refs[i]].y) : i \in 1..Len(refs)}
        least(S) == CHOOSE m \in S : \A v \in S : m <= v
        most(S) == CHOOSE m \in S : \A v \in S : v <= m
    IN IF Len(refs) = 0
       THEN [minX |-> 0, minY |-> 0, maxX |-> 0, maxY |-> 0, width |-> 0, height |-> 0]
       ELSE [minX |-> least(xs) - 2500, minY |-> least(ys) - 2500,
             maxX |-> most(xs) + 2500, maxY |-> most(ys) + 2500,
             width |-> most(xs) - least(xs) + 5000, height |-> most(ys) - least(ys) + 5000]

\* normalizeLayout: the scale is kept in thousandths
normalizeLayout(heap, refs, opts) ==
    LET bounds == getNodeBounds(heap, refs)
        orOne(v) == IF v = 0 THEN 100 ELSE v
        scaleX == ((opts.width - 10000) * 1000) \div orOne(bounds.width)
        scaleY == ((opts.height - 10000) * 1000) \div orOne(bounds.height)
        least == IF scaleX < scaleY THEN scaleX ELSE scaleY
        scale == IF least < 2000 THEN least ELSE 2000
        offsetX == 5000 - (bounds.minX * scale) \div 1000
        offsetY == 5000 - (bounds.minY * scale) \div 1000
        placed(i, node) ==
            [node EXCEPT
                !.x = IF node.fx.has THEN node.x
                      ELSE Some(((OrZero(node.x) - bounds.minX) * scale) \div 1000 + offsetX),
                !.y = IF node.fy.has THEN node.y
                      ELSE Some(((OrZero(node.y) - bounds.minY) * scale) \div 1000 + offsetY)]
    IN Rewrite(heap, refs, placed)

(* ---------------------- layout calls, step by step -------------------- *)
ClusterIterations == 50
IncrementalIterations == 50

\* computeForceDirectedLayout up to its while loop: coordinates that are not
\* set are drawn at random, velocities that are not set start at 0
StartRun(st, refs, edges, opts, caller) ==
    LET started(i, node) ==
            [node EXCEPT
                !.x = IF node.x.has THEN node.x
                      ELSE Some((st.random[refs[i]][1] * opts.width) \div 100),
                !.y = IF node.y.has THEN node.y
                      ELSE Some((st.random[refs[i]][2] * opts.height) \div 100),
                !.vx = IF node.vx.has THEN node.vx ELSE Some(0),
                !.vy = IF node.vy.has THEN node.vy ELSE Some(0)]
    IN [st EXCEPT !.pc = "loop",
                  !.heap = Rewrite(st.heap, refs, started),
                  !.run = [nodes |-> refs, edges |-> edges, options |-> opts, iteration |-> 0,
                           converged |-> FALSE, maxVelocity |-> 0, caller |-> caller],
                  !.given = Append(@, [nodes |-> [i \in 1..Len(refs) |-> st.heap[refs[i]].id],
                                       edges |-> edges])]

\* the tail of computeLayout: normalizeLayout, the layout-computed event, the answer
Finish(st, refs, edges, iterations, converged) ==
    [st EXCEPT !.pc = "done",
               !.heap = normalizeLayout(st.heap, refs, st.options),
               !.result = [nodes |-> refs, edges |-> edges, algorithm |-> st.algorithm,
                           options |-> st.options, iterations |-> iterations,
                           converged |-> converged],
               !.outcome = "ok",
               !.fired = @ + 1]

\* layoutCluster up to the while loop of the routine it calls
StartCluster(st, at, x, y) ==
    LET bounds == [x |-> x, y |-> y, width |-> st.cluster.spacing - 5000,
                   height |-> st.cluster.spacing - 5000]
        opts == [width |-> bounds.width, height |-> bounds.height, nodeSpacing |-> 5000,
                 iterations |-> ClusterIterations, velocityDecay |-> 80]
    IN StartRun([st EXCEPT !.cluster.at = at, !.cluster.x = x, !.cluster.y = y],
                st.cluster.list[at], <<>>, opts, "layoutCluster")

\* computeClusteredLayout up to the first cluster's loop, or to its end
computeClusteredLayout(st) ==
    LET clusters == identifyClusters(st.heap, st.data.nodes, st.data.edges)
        larger == IF st.options.width > st.options.height THEN st.options.width
                  ELSE st.options.height
        clusterSpacing == (larger * 100) \div (Sqrt(Len(clusters) * 10000) + 100)
        found == [st EXCEPT !.cluster = [list |-> clusters, at |-> 0, x |-> clusterSpacing,
                                         y |-> clusterSpacing, spacing |-> clusterSpacing]]
    IN IF Len(clusters) = 0
       THEN Finish(found, st.data.nodes, st.data.edges, 1, TRUE)
       ELSE StartCluster(found, 1, clusterSpacing, clusterSpacing)

LayoutCall(fn, algorithm, heap, refs, edges, opts, random) ==
    [IdleLayout EXCEPT !.pc = "start", !.fn = fn, !.algorithm = algorithm, !.heap = heap,
                       !.data = [nodes |-> refs, edges |-> edges], !.options = opts,
                       !.random = random]

\* the node objects whose coordinates a layout draws at random
NeedsRandom(algorithm, nodes) ==
    {i \in 1..Len(nodes) : algorithm = "random" \/ ~nodes[i].x.has \/ ~nodes[i].y.has}

\* computeLayout(data, algorithm, options) up to the first pass of a force loop
\* or, for the layouts without one, to its end
ComputeLayout(graph, algorithm, given, random) ==
    LET refs == [i \in 1..Len(graph.nodes) |-> i]
        st == LayoutCall("computeLayout", algorithm, graph.nodes, refs, graph.edges,
                         MergeOptions(DefaultOptions, given), random)
    IN /\ layout.pc = "idle"
       /\ layout' =
            CASE algorithm = "force-directed" ->
                    StartRun(st, refs, graph.edges, st.options, "computeLayout")
              [] algorithm = "hierarchical" ->
                    Finish([st EXCEPT !.heap = computeHierarchicalLayout(st.heap, refs,
                                                        graph.edges, st.options)],
                           refs, graph.edges, 1, TRUE)
              [] algorithm = "clustered" -> computeClusteredLayout(st)
              [] algorithm = "circular" ->
                    Finish([st EXCEPT !.heap = computeCircularLayout(st.heap, refs, st.options)],
                           refs, graph.edges, 1, TRUE)
              [] algorithm = "grid" ->
                    Finish([st EXCEPT !.heap = computeGridLayout(st.heap, refs, st.options)],
                           refs, graph.edges, 1, TRUE)
              [] algorithm = "random" ->
                    Finish([st EXCEPT !.heap = computeRandomLayout(st.heap, refs, st.options,
                                                                   random)],
                           refs, graph.edges, 1, TRUE)
              [] OTHER -> [st EXCEPT !.pc = "done", !.outcome = "LAYOUT_COMPUTATION_FAILED"]
       /\ UNCHANGED <<now, cacheVars, queryVars, call, channel, hook, tasks, layoutHook>>

\* mutant: the ends of every edge count as affected
AffectedNodesOfAnyEdge(edges, changedNodes) ==
    changedNodes
    \cup {edges[k].source : k \in 1..Len(edges)}
    \cup {edges[k].target : k \in 1..Len(edges)}

\* the nodes computeIncrementalLayout recomputes: the changed ones and their neighbours
AffectedNodes(edges, changedNodes) ==
    changedNodes
    \cup {edges[k].source : k \in {j \in 1..Len(edges) :
                edges[j].source \in changedNodes \/ edges[j].target \in changedNodes}}
    \cup {edges[k].target : k \in {j \in 1..Len(edges) :
                edges[j].source \in changedNodes \/ edges[j].target \in changedNodes}}

\* previousResult.nodes.map(node => ({ ...node })): new objects after the old ones
CopyNodes(heap, refs) == heap \o [i \in 1..Len(refs) |-> heap[refs[i]]]

\* computeIncrementalLayout(data, previousResult, changedNodes) up to the loop
\* over the affected nodes, or to its end when there are none
ComputeIncrementalLayout(edges, previous, changedNodes) ==
    LET old == [i \in 1..Len(previous.nodes) |-> i]
        copies == [i \in 1..Len(previous.nodes) |-> Len(previous.nodes) + i]
        heap == CopyNodes(previous.nodes, old)
        affectedNodes == AffectedNodes(edges, changedNodes)
        affectedNodeObjects == SelectSeq(copies, LAMBDA r : heap[r].id \in affectedNodes)
        st == [LayoutCall("computeIncrementalLayout", previous.algorithm, heap, old, edges,
                          previous.options, <<>>)
                 EXCEPT !.previous = [previous EXCEPT !.nodes = old],
                        !.changedNodes = changedNodes,
                        !.result = [nodes |-> copies, edges |-> previous.edges,
                                    algorithm |-> previous.algorithm,
                                    options |-> previous.options, iterations |-> 0,
                                    converged |-> TRUE]]
    IN /\ layout.pc = "idle"
       /\ layout' =
            IF Len(affectedNodeObjects) > 0
            THEN StartRun(st, affectedNodeObjects,
                          SelectSeq(previous.edges,
                                    LAMBDA e : e.source \in affectedNodes
                                               /\ e.target \in affectedNodes),
                          [previous.options EXCEPT !.iterations = IncrementalIterations],
                          "computeIncrementalLayout")
            ELSE [st EXCEPT !.pc = "done", !.outcome = "ok"]
       /\ UNCHANGED <<now, cacheVars, queryVars, call, channel, hook, tasks, layoutHook>>

\* the positions in refs of the nodes the forces move: those not fixed in place
FreeNodes(heap, refs) ==
    {i \in 1..Len(refs) : ~(heap[refs[i]].fx.has /\ heap[refs[i]].fy.has)}

\* one pass of the while loop of computeForceDirectedLayout
ForceStep(choice) ==
    LET pass == ForceIteration(layout.heap, layout.run.nodes, layout.run.options, choice)
    IN /\ layout.pc = "loop"
       /\ layout.run.iteration < layout.run.options.iterations
       /\ ~layout.run.converged
       /\ layout' = [layout EXCEPT !.heap = pass.heap,
                                   !.run.maxVelocity = pass.maxVelocity,
                                   !.run.converged = pass.maxVelocity < ConvergenceThreshold,
                                   !.run.iteration = @ + 1]
       /\ UNCHANGED <<now, cacheVars, queryVars, call, channel, hook, tasks, layoutHook>>

\* layoutCluster after its routine: the cluster is moved to its place, then
\* computeClusteredLayout goes on to the next cluster or to its end
ClusterDone(st) ==
    LET offset(i, node) == [node EXCEPT !.x = Some(OrZero(node.x) + st.cluster.x),
                                        !.y = Some(OrZero(node.y) + st.cluster.y)]
        moved == [st EXCEPT !.heap = Rewrite(st.heap, st.run.nodes, offset)]
        right == st.cluster.x + st.cluster.spacing
        wraps == right > st.options.width - st.cluster.spacing
    IN IF st.cluster.at = Len(st.cluster.list)
       THEN Finish(moved, st.data.nodes, st.data.edges, 1, TRUE)
       ELSE StartCluster(moved, st.cluster.at + 1,
                         IF wraps THEN st.cluster.spacing ELSE right,
                         IF wraps THEN st.cluster.y + st.cluster.spacing ELSE st.cluster.y)

\* the while loop of computeForceDirectedLayout is left and its caller goes on
ForceReturn ==
    /\ layout.pc = "loop"
    /\ ~(layout.run.iteration < layout.run.options.iterations /\ ~layout.run.converged)
    /\ layout' =
        CASE layout.run.caller = "computeLayout" ->
                Finish(layout, layout.run.nodes, layout.run.edges, layout.run.iteration,
                       layout.run.converged)
          [] layout.run.caller = "layoutCluster" -> ClusterDone(layout)
          [] OTHER -> [layout EXCEPT !.pc = "done", !.outcome = "ok"]
    /\ UNCHANGED <<now, cacheVars, queryVars, call, channel, hook, tasks, layoutHook>>

(* ------------------------- layout inputs ------------------------------ *)
Placed(id, x, y) == GraphNode(id, Some(x), Some(y), Some(0), Some(0), NoNumber, NoNumber)
Pinned(id, x, y, vx) == GraphNode(id, Some(x), Some(y), Some(vx), Some(0), Some(x), Some(y))
Fresh(id) == GraphNode(id, NoNumber, NoNumber, NoNumber, NoNumber, NoNumber, NoNumber)

Graph(nodes, edges) == [nodes |-> nodes, edges |-> edges]

\* three nodes near the lower edge of the default canvas
NodesABC == <<Placed("a", 10000, 74992), Placed("b", 20000, 75000), Placed("c", 30000, 75000)>>

\* the elements of seq at the positions S, in order
RECURSIVE Pick(_, _, _)
Pick(seq, S, i) ==
    IF i > Len(seq) THEN <<>>
    ELSE (IF i \in S THEN <<seq[i]>> ELSE <<>>) \o Pick(seq, S, i + 1)

\* every directed graph on a, b, c, self-loops included
EdgesABC ==
    <<GraphEdge("a", "a"), GraphEdge("a", "b"), GraphEdge("a", "c"),
      GraphEdge("b", "a"), GraphEdge("b", "b"), GraphEdge("b", "c"),
      GraphEdge("c", "a"), GraphEdge("c", "b"), GraphEdge("c", "c")>>
GraphsABC == {Graph(NodesABC, Pick(EdgesABC, S, 1)) : S \in SUBSET (1..Len(EdgesABC))}

\* a diamond with a doubled edge and an edge to a node that is not in the graph
Diamond ==
    Graph(NodesABC \o <<Placed("d", 40000, 75000)>>,
          <<GraphEdge("a", "b"), GraphEdge("a", "c"), GraphEdge("b", "d"), GraphEdge("c", "d"),
            GraphEdge("a", "d"), GraphEdge("a", "d"), GraphEdge("d", "z")>>)

ForceGraphs ==
    {Graph(<<>>, <<>>),
     Graph(<<Placed("a", 10000, 74992), Placed("b", 20000, 75000)>>, <<GraphEdge("a", "b")>>),
     Graph(<<Pinned("a", 10000, 10000, 500), Placed("b", 20000, 75000)>>, <<>>),
     Graph(<<Pinned("a", 10000, 10000, 500)>>, <<>>),
     Graph(<<Fresh("a")>>, <<>>)}

MaxIterations == 3

ForceOptions ==
    {[iterations |-> k] : k \in 0..MaxIterations} \cup {[iterations |-> 2, velocityDecay |-> 150]}

\* a, b near the lower edge and c pinned there
NodesABPinnedC ==
    <<Placed("a", 10000, 74992), Placed("b", 20000, 75000), Pinned("c", 30000, 75000, 0)>>

ClusterGraphs ==
    {Graph(<<>>, <<>>),
     Graph(NodesABC, <<>>),
     Graph(NodesABC, <<GraphEdge("a", "b")>>),
     Graph(NodesABC, <<GraphEdge("c", "b"), GraphEdge("c", "z")>>),
     Graph(NodesABPinnedC, <<GraphEdge("a", "b"), GraphEdge("c", "b")>>)}

LayoutInput(graph, algorithm, given) == [graph |-> graph, algorithm |-> algorithm, given |-> given]

LayoutInputs ==
    {LayoutInput(g, "force-directed", o) : g \in ForceGraphs, o \in ForceOptions}
    \cup {LayoutInput(g, "hierarchical", <<>>) : g \in GraphsABC \cup {Diamond}}
    \cup {LayoutInput(g, "clustered", <<>>) : g \in ClusterGraphs}
    \cup {LayoutInput(g, a, <<>>) :
            g \in {Graph(<<>>, <<>>), Graph(<<Placed("a", 10000, 74992), Fresh("b")>>, <<>>),
                   Diamond},
            a \in {"circular", "grid", "random", "spiral"}}

\* a LayoutResult a caller kept from an earlier call
PreviousResults ==
    {[nodes |-> NodesABC, edges |-> <<GraphEdge("a", "b")>>, algorithm |-> "force-directed",
      options |-> DefaultOptions, iterations |-> 3, converged |-> FALSE],
     [nodes |-> <<>>, edges |-> <<>>, algorithm |-> "grid",
      options |-> DefaultOptions, iterations |-> 1, converged |-> TRUE]}

IncrementalEdges == {<<>>, <<GraphEdge("a", "b")>>, <<GraphEdge("a", "b"), GraphEdge("c", "b")>>}
ChangedInputs == {{}, {"a"}, {"c"}, {"z"}}

LayoutNext ==
    \/ \E input \in LayoutInputs :
        \E random \in [NeedsRandom(input.algorithm, input.graph.nodes)
                        -> RandomChoices \X RandomChoices] :
            ComputeLayout(input.graph, input.algorithm, input.given, random)
    \/ \E edges \in IncrementalEdges, previous \in PreviousResults, changedNodes \in ChangedInputs :
        ComputeIncrementalLayout(edges, previous, changedNodes)
    \/ \E choice \in [FreeNodes(layout.heap, layout.run.nodes) -> VelocityChoices] :
        ForceStep(choice)
    \/ ForceReturn

\* the file system plays no part in a layout
LayoutInit == Init /\ fileStat = [u \in Uris |-> CHOOSE o \in StatOutcomes : TRUE]

LayoutSpec == LayoutInit /\ [][LayoutNext]_vars

(* ============================ CodemapChannel =========================== *)
MaxTicks == 2

\* the tick of the timer of startPerformanceMonitoring: the memory figures are
\* read and onPerformanceMetricsUpdated fires
MetricsTick ==
    /\ \E t \in channel.timers : t.task = "metrics"
    /\ channel.metricsFired < MaxTicks
    /\ channel' = [channel EXCEPT !.metricsFired = @ + 1]
    /\ UNCHANGED <<now, cacheVars, queryVars, call, layout, hook, tasks, layoutHook>>

\* CodemapChannel.dispose, of which CachingService.dispose is the part with an
\* effect on timers and stores: the cleanup timer is cleared, then clearCache
Dispose ==
    LET cleared == [s \in StoreNames |-> <<>>]
        stopped == IF channel.cleanupTimer # 0
                   THEN [ClearInterval(channel, channel.cleanupTimer) EXCEPT !.cleanupTimer = 0]
                   ELSE channel
    IN /\ ~channel.disposed
       /\ channel' = [stopped EXCEPT !.disposed = TRUE]
       /\ stores' = cleared
       /\ stats' = updateStats(cleared, stats)
       /\ lastOp' = OpRecord("dispose", "", "", <<>>, "done", Absent, Len(AllEntries(stores)),
                             1, <<>>)
       /\ UNCHANGED <<now, fileStat, options, timerDue, opCount, optionChanges, queryVars, call,
                      layout, hook, tasks, layoutHook>>

\* the set calls made on the cache of the channel
ChannelSetInputs == {<<"symbols", "a.ts", <<"a.ts">>>>, <<"layout", "l1", <<>>>>}

\* the channel in use, its timers ticking, until it is disposed; after that
\* only what is still scheduled goes on
ChannelNext ==
    \/ ~channel.disposed /\ \E i \in ChannelSetInputs : SetToCache(i[1], i[2], i[3])
    \/ ~channel.disposed /\ \E p \in OptionPartials : SetCacheOptions(p)
    \/ PerformCleanup
    \/ MetricsTick
    \/ Tick
    \/ Dispose

ChannelInit == Init /\ fileStat = [u \in Uris |-> [threw |-> FALSE, mtime |-> 0, ctime |-> 0]]

ChannelSpec == ChannelInit /\ [][ChannelNext]_vars

(* ============================ useCodemapData =========================== *)
MaxFetches == 3

\* the queries a caller passes to fetchData or sets as the hook's option;
\* "none" stands for undefined
FetchQueries == {"none", "q1", "q2"}

\* generateQueryKey: 'default' without a query, else the JSON text of
\* {scope, query}, which differs from 'default' and between the queries
generateQueryKey(q) == IF q = "none" THEN <<"default">> ELSE <<"{scope,query}", q>>

\* mutant: the signal of a superseded request never reads as aborted
AbortedNever(request) == FALSE

\* abortController.signal.aborted of the request
Aborted(request) == request.aborted

\* abortControllerRef.current.abort(), when there is a controller
AbortCurrent(requests, current) ==
    IF current # 0 THEN [requests EXCEPT ![current].aborted = TRUE] ELSE requests

\* the component that uses the hook is mounted with its options
Mount(refreshInterval, query) ==
    /\ hook.pc = "unmounted"
    /\ hook' = [hook EXCEPT !.pc = "mounted", !.refreshInterval = refreshInterval,
                            !.query = query]
    /\ UNCHANGED <<now, cacheVars, queryVars, call, layout, channel, tasks, layoutHook>>

\* fetchData(currentQuery) up to its first await, or to its end when the query
\* is the one last shown and there is no refresh interval
FetchData(currentQuery) ==
    LET id == Len(hook.requests) + 1
        asked == IF currentQuery # "none" THEN currentQuery ELSE hook.query
        queryKey == generateQueryKey(asked)
        skips == queryKey = hook.lastQueryRef /\ hook.refreshInterval = 0
        request == [query |-> asked, key |-> queryKey, aborted |-> FALSE,
                    pc |-> IF skips THEN "skipped" ELSE "awaiting",
                    outcome |-> "none", settledAfter |-> 0]
    IN /\ hook.pc = "mounted"
       /\ Len(hook.requests) < MaxFetches
       /\ hook' = [hook EXCEPT
                    !.requests = Append(AbortCurrent(@, hook.abortControllerRef), request),
                    !.abortControllerRef = id,
                    !.loading = ~skips,
                    !.error = [has |-> FALSE, by |-> 0]]
       /\ UNCHANGED <<now, cacheVars, queryVars, call, layout, channel, tasks, layoutHook>>

\* the outcomes of a fetch: getGraphData answers, or it throws, or it answers
\* and the caller's onDataChange throws
FetchOutcomes == {"ok", "throw", "callback-throws"}

\* fetchData from the await of getGraphData to its end
Settle(id, outcome) ==
    LET request == hook.requests[id]
        settled == [hook EXCEPT !.requests[id].pc = "settled",
                                !.requests[id].outcome = outcome,
                                !.requests[id].settledAfter = Len(hook.requests)]
        shown == [settled EXCEPT !.data = [has |-> TRUE, query |-> request.query, by |-> id],
                                 !.lastQueryRef = request.key]
    IN /\ id \in 1..Len(hook.requests)
       /\ request.pc = "awaiting"
       /\ hook' =
            IF Aborted(request) THEN settled
            ELSE CASE outcome = "ok" -> [shown EXCEPT !.loading = FALSE]
                   [] outcome = "callback-throws" ->
                        [shown EXCEPT !.error = [has |-> TRUE, by |-> id], !.loading = FALSE]
                   [] OTHER ->
                        [settled EXCEPT !.error = [has |-> TRUE, by |-> id], !.loading = FALSE]
       /\ UNCHANGED <<now, cacheVars, queryVars, call, layout, channel, tasks, layoutHook>>

\* the cleanup effect of the hook when its component goes away
Unmount ==
    /\ hook.pc = "mounted"
    /\ hook' = [hook EXCEPT !.pc = "gone",
                            !.requests = AbortCurrent(@, hook.abortControllerRef)]
    /\ UNCHANGED <<now, cacheVars, queryVars, call, layout, channel, tasks, layoutHook>>

SettleSome == \E id \in 1..MaxFetches, outcome \in FetchOutcomes : Settle(id, outcome)

FetchNext ==
    \/ \E refreshInterval \in {0, 5000}, query \in {"none", "q1"} : Mount(refreshInterval, query)
    \/ \E currentQuery \in FetchQueries : FetchData(currentQuery)
    \/ SettleSome
    \/ Unmount

FetchInit == Init /\ fileStat = [u \in Uris |-> [threw |-> FALSE, mtime |-> 0, ctime |-> 0]]

\* every fetch that is under way settles in the end
FetchSpec == FetchInit /\ [][FetchNext]_vars /\ WF_vars(SettleSome)

(* ============== CachingService: suspended gets and sets =============== *)
\* getFromCache and setToCache are async: a get is suspended at every stat of
\* areDependenciesStale, a set at the await of ensureSpace. Between a
\* suspension and its resumption other cache operations run. Entry objects
\* are told apart by the number in their id field.
AsyncSetInputs == {<<"symbols", "a.ts", <<"a.ts">>>>,
                   <<"references", "s1", <<"a.ts", "a.ts">>>>,
                   <<"layout", "l1", <<>>>>,
                   <<"query-result", "q1", <<"a.ts">>>>}
AsyncKeyInputs == {<<"symbols", "a.ts">>, <<"references", "s1">>, <<"layout", "l1">>}
AsyncInvalidateInputs == {<<"symbols", "a.ts">>, <<"references", "s1">>}
AsyncOptionPartials == {[ttl |-> 1, cleanupInterval |-> 1, maxEntries |-> 2], [maxSize |-> 20]}

RemoveAt(seq, i) == SubSeq(seq, 1, i - 1) \o SubSeq(seq, i + 1, Len(seq))

\* the entry object a suspended get holds is still the one stored under its key
IsLive(st, get) ==
    /\ MapHas(st[get.store], get.key)
    /\ MapGet(st[get.store], get.key).id = get.id

\* what a listener of onCacheEvicted sees when it is called with the event
\* and reads getCacheStats() and the stores
Observation(event, st, s) ==
    [event |-> event, stats |-> s, liveCount |-> Len(AllEntries(st)),
     liveSize |-> calculateTotalCacheSize(st)]

\* an operation is started / a suspended operation goes on
AsyncOpStarted ==
    /\ opCount < MaxOps
    /\ opCount' = opCount + 1
    /\ UNCHANGED <<now, fileStat, optionChanges, options, timerDue, queryVars, call,
                   layout, channel, hook, layoutHook>>
AsyncOpResumed ==
    UNCHANGED <<now, fileStat, optionChanges, options, timerDue, opCount, queryVars, call,
                layout, channel, hook, layoutHook>>

\* getFromCache up to its first await, or to its end when it has none
AsyncGetStart(store, key) ==
    LET entry == MapGet(stores[store], key)
    IN IF \/ ~MapHas(stores[store], key)
          \/ IsExpired(entry)
          \/ ~entry.dependencies.defined
       THEN GetFromCache(store, key)
       ELSE /\ AsyncOpStarted
            /\ tasks' = [tasks EXCEPT !.gets = Append(@,
                            [store |-> store, key |-> key, id |-> entry.id,
                             data |-> entry.data, deps |-> entry.dependencies.list])]
            /\ lastOp' = OpRecord("get-stat", store, key, <<>>, "suspended", Absent, 0, 0, <<>>)
            /\ UNCHANGED <<stores, stats>>

\* the stat of the first remaining dependency of suspended get i has settled:
\* the get goes on to its next stat or to its end. A stat settles in a task of
\* its own, so no set is between its await and its insertion then.
AsyncGetResume(i) ==
    LET get == tasks.gets[i]
        check == IF get.deps = <<>> THEN "ok" ELSE DependencyCheck(Head(get.deps))
        removed == [stores EXCEPT ![get.store] = MapDelete(@, get.key)]
        \* entry.lastAccessed = ..., entry.accessCount++ on the object held
        touched == IF IsLive(stores, get)
                   THEN [stores EXCEPT ![get.store] = MapSet(@, get.key, Touch(MapGet(@, get.key)))]
                   ELSE stores
    IN /\ tasks.sets = <<>>
       /\ AsyncOpResumed
       /\ IF check = "ok" /\ Len(get.deps) > 1
          THEN /\ tasks' = [tasks EXCEPT !.gets[i].deps = Tail(@)]
               /\ UNCHANGED <<stores, stats, lastOp>>
          ELSE /\ tasks' = [tasks EXCEPT !.gets = RemoveAt(@, i)]
               /\ IF check = "stale"
                  THEN /\ stores' = removed
                       /\ stats' = updateStats(removed, [stats EXCEPT !.missCount = @ + 1])
                       /\ lastOp' = OpRecord("get", get.store, get.key, <<>>, "stale",
                                             Absent, 1, 1, <<>>)
                  ELSE /\ stores' = touched
                       /\ stats' = updateStats(touched, [stats EXCEPT !.hitCount = @ + 1])
                       /\ lastOp' = OpRecord("get", get.store, get.key, <<>>, "hit",
                                             Found(get.data), 0, 1, <<>>)

\* what the listener sees at each event of the eviction loop of ensureSpace:
\* the victims up to that one are deleted and counted, updateStats has not run
ensureSpaceObserved(st, s, requiredSize) ==
    LET sorted == SortAscending(AllEntries(st), now)
        n == EvictionLoop(sorted, 1, 0, calculateTotalCacheSize(st), requiredSize)
    IN IF calculateTotalCacheSize(st) + requiredSize <= options.maxSize THEN <<>>
       ELSE [i \in 1..n |->
                Observation(Event(sorted[i].name, sorted[i].key, "space-needed"),
                            DeleteAll(st, SubSeq(sorted, 1, i)),
                            [s EXCEPT !.evictionCount = @ + i])]

\* setToCache up to its await: calculateSize and the whole of ensureSpace
AsyncSetStart(store, key, data) ==
    LET size == calculateSize(data)
        space == ensureSpace(stores, size)
        counted == [stats EXCEPT !.evictionCount = @ + Len(space.evicted)]
    IN /\ AsyncOpStarted
       /\ stores' = space.stores
       /\ stats' = IF space.statsFired = 1 THEN updateStats(space.stores, counted) ELSE stats
       /\ tasks' = [tasks EXCEPT
                      !.sets = Append(@, [store |-> store, key |-> key, data |-> data, size |-> size]),
                      !.observed = ensureSpaceObserved(stores, stats, size)]
       /\ lastOp' = OpRecord("set-space", store, key, data, "suspended", Absent,
                             Len(space.evicted), space.statsFired, space.evicted)

\* the rest of setToCache, for the set that was suspended first
AsyncSetInsert ==
    LET set == Head(tasks.sets)
        entry == [key |-> set.key, data |-> set.data, timestamp |-> now, lastAccessed |-> now,
                  accessCount |-> 1, size |-> set.size,
                  dependencies |-> SetterDependencies(set.store, set.key, set.data),
                  id |-> tasks.nextId]
        updated == [stores EXCEPT ![set.store] = MapSet(@, set.key, entry)]
    IN /\ tasks.sets # <<>>
       /\ AsyncOpResumed
       /\ stores' = updated
       /\ stats' = updateStats(updated, stats)
       /\ tasks' = [tasks EXCEPT !.sets = Tail(@), !.nextId = @ + 1]
       /\ lastOp' = OpRecord("set", set.store, set.key, set.data, "done", Absent, 0, 1, <<>>)

\* invalidateCache with a listener on onCacheEvicted
InvalidateCacheObserved(store, key, reason) ==
    LET removed == [stores EXCEPT ![store] = MapDelete(@, key)]
        counted == [stats EXCEPT !.evictionCount = @ + 1]
        event == Event(IF store = "symbols" THEN "symbols" ELSE "unknown", key, reason)
    IN /\ AsyncOpStarted
       /\ IF MapHas(stores[store], key)
          THEN /\ stores' = removed
               /\ tasks' = [tasks EXCEPT !.observed = <<Observation(event, removed, counted)>>]
               /\ stats' = updateStats(removed, counted)
               /\ lastOp' = OpRecord("invalidate", store, key, <<>>, "done", Absent, 1, 1, <<event>>)
          ELSE /\ tasks' = [tasks EXCEPT !.observed = <<>>]
               /\ lastOp' = OpRecord("invalidate", store, key, <<>>, "absent", Absent, 0, 0, <<>>)
               /\ UNCHANGED <<stores, stats>>

\* performCleanup with a listener on onCacheEvicted; it runs from a timer
PerformCleanupObserved ==
    LET doomed == Flatten([i \in 1..Len(StoreOrder) |->
                    [j \in 1..Len(KeysToDelete(stores[StoreOrder[i]])) |->
                        [name |-> StoreOrder[i],
                         key |-> KeysToDelete(stores[StoreOrder[i]])[j].key]]])
        kept == DeleteAll(stores, doomed)
        events == [i \in 1..Len(doomed) |-> Event(doomed[i].name, doomed[i].key, "expired")]
        counted == [stats EXCEPT !.evictionCount = @ + Len(doomed)]
    IN /\ now >= timerDue
       /\ \E t \in channel.timers : t.task = "cleanup"
       /\ tasks.sets = <<>>
       /\ opCount < MaxOps
       /\ opCount' = opCount + 1
       /\ timerDue' = now + options.cleanupInterval
       /\ stores' = kept
       /\ stats' = IF Len(doomed) > 0 THEN updateStats(kept, counted) ELSE counted
       /\ tasks' = [tasks EXCEPT !.observed =
                      [i \in 1..Len(doomed) |->
                          Observation(events[i], DeleteAll(stores, SubSeq(doomed, 1, i)),
                                      [stats EXCEPT !.evictionCount = @ + i])]]
       /\ lastOp' = OpRecord("cleanup", "", "", <<>>, "done", Absent, Len(doomed),
                             IF Len(doomed) > 0 THEN 1 ELSE 0, events)
       /\ UNCHANGED <<now, fileStat, optionChanges, options, queryVars, call, layout, channel, hook, layoutHook>>

AsyncNext ==
    \/ \E i \in AsyncKeyInputs : AsyncGetStart(i[1], i[2])
    \/ \E i \in 1..Len(tasks.gets) : AsyncGetResume(i)
    \/ \E i \in AsyncSetInputs : AsyncSetStart(i[1], i[2], i[3])
    \/ AsyncSetInsert
    \/ \E i \in AsyncInvalidateInputs : InvalidateCacheObserved(i[1], i[2], InvalidateReason(i[1]))
    \/ ClearCache
    \* the options are set before anything is stored, so that no entry is ever
    \* older than the budget it is held against
    \/ /\ AllEntries(stores) = <<>> /\ tasks.sets = <<>>
       /\ \E p \in AsyncOptionPartials : SetCacheOptions(p)
    \/ PerformCleanupObserved
    \/ Tick
    \/ \E u \in Uris, o \in StatOutcomes : FileChange(u, o)

AsyncInit == Init /\ fileStat = [u \in Uris |-> [threw |-> FALSE, mtime |-> 0, ctime |-> 0]]

AsyncSpec == AsyncInit /\ [][AsyncNext]_vars

(* ============ QueryEngineService: suspended index operations ========== *)
\* buildIndex, updateIndex and executeQuery are async. getFilesInScope,
\* indexSymbols and extractRelationships answer without waiting, so their
\* callers go on before anything that waits for the language service does;
\* getDocumentSymbols and getDocumentText settle in a later turn, and any other
\* index operation may run before they do.
IndexUpdateInputs == {<<FileA>>, <<FilePy, FileA>>}
IndexProviderAnswers == {[threw |-> TRUE, symbols |-> <<>>], [threw |-> FALSE, symbols |-> TreeFoo]}
IndexScopes == {Scope(NoList, NoList, NoFlag), Scope(Some(<<"b", ".">>), NoList, NoFlag)}

\* a suspended index operation. pc: the await it is at ("files": getFilesInScope,
\* "symbols": getDocumentSymbols(uris[i]), "text": getDocumentText(file), "done":
\* the await of buildRelationshipIndex or ensureIndex, which has returned);
\* passed: the keys the iterator of buildRelationshipIndex has gone past;
\* built: the operation runs buildIndex
IndexTask(op, pc, query, scope, uris) ==
    [op |-> op, pc |-> pc, query |-> query, scope |-> scope, uris |-> uris, i |-> 1,
     file |-> <<>>, passed |-> {}, built |-> pc = "files"]

IndexOpStarted ==
    /\ queryCount < MaxQueryOps
    /\ queryCount' = queryCount + 1
    /\ UNCHANGED <<now, cacheVars, call, layout, channel, hook, layoutHook>>
IndexOpResumed == UNCHANGED <<now, cacheVars, call, layout, channel, hook, queryCount, layoutHook>>

\* some operation waits for an answer that is given without waiting
AnswerReady == \E k \in 1..Len(tasks.index) : tasks.index[k].pc \in {"files", "done"}

\* Map.prototype.clear under a running iterator: every entry set afterwards
\* lies ahead of it
AfterClear(ops) == [k \in 1..Len(ops) |-> [ops[k] EXCEPT !.passed = {}]]

\* the iterator of buildRelationshipIndex moves on: to the await of the next
\* file of the symbol index, or past the end of the loop
NextFile(task, symIndex) ==
    LET ahead == SelectSeq(symIndex, LAMBDA e : e.key \notin task.passed)
    IN IF ahead = <<>> THEN [task EXCEPT !.pc = "done"]
       ELSE [task EXCEPT !.pc = "text", !.file = ahead[1].key, !.passed = @ \cup {ahead[1].key}]

\* operation k goes on to its next await, with the index maps as given; when
\* buildRelationshipIndex has returned (pc "done"), its caller goes on at once
IndexContinue(k, task, symIndex, fIndex, relIndex) ==
    /\ IndexOpResumed
    /\ symbolIndex' = symIndex
    /\ fileIndex' = fIndex
    /\ relationshipIndex' = relIndex
    /\ tasks' = [tasks EXCEPT !.index[k] = task]
    /\ UNCHANGED <<queryCache, queryLast>>

\* the end of operation k: buildIndex fires index-updated, updateIndex returns,
\* executeQuery, its index ensured, runs the query and stores the result
IndexComplete(k) ==
    LET task == tasks.index[k]
        result == executeQueryInternal(optimizeQuery(task.query), task.scope,
                                       symbolIndex, relationshipIndex)
    IN /\ k \in 1..Len(tasks.index)
       /\ task.pc = "done"
       /\ IndexOpResumed
       /\ tasks' = [tasks EXCEPT !.index = RemoveAt(@, k)]
       /\ UNCHANGED <<symbolIndex, fileIndex, relationshipIndex>>
       /\ CASE task.op = "buildIndex" ->
                 /\ queryLast' = QueryRecord("buildIndex", NoQuery, task.scope, <<>>, "ok",
                                     FALSE, QueryResult(<<>>, <<>>, 0), "onIndexUpdated")
                 /\ UNCHANGED queryCache
            [] task.op = "updateIndex" ->
                 /\ queryLast' = QueryRecord("updateIndex", NoQuery, NoScope, task.uris, "ok",
                                     FALSE, QueryResult(<<>>, <<>>, 0), "none")
                 /\ UNCHANGED queryCache
            [] task.op = "executeQuery" ->
                 /\ queryCache' = LRUSet(queryCache, getQueryCacheKey(task.query, task.scope),
                                         [result EXCEPT !.cached = FALSE])
                 /\ queryLast' = QueryRecord("executeQuery", task.query, task.scope, <<>>,
                                     "ok", FALSE, result, "onQueryExecuted")

\* buildIndex up to its first await: the three maps are cleared
IndexBuildStart(op, query, scope) ==
    /\ IndexOpStarted
    /\ symbolIndex' = <<>>
    /\ relationshipIndex' = <<>>
    /\ fileIndex' = <<>>
    /\ tasks' = [tasks EXCEPT !.index =
                    Append(AfterClear(@), IndexTask(op, "files", query, scope, <<>>))]
    /\ UNCHANGED <<queryCache, queryLast>>

\* buildIndex from the answer of getFilesInScope: the loop over the files and
\* the start of buildRelationshipIndex
IndexResumeFiles(k) ==
    LET task == tasks.index[k]
        files == getFilesInScope(task.scope)
    IN /\ k \in 1..Len(tasks.index)
       /\ task.pc = "files"
       /\ \E idx \in {IndexFiles([symbols |-> symbolIndex, files |-> fileIndex], files, <<>>, 1)} :
          \E next \in {NextFile(task, idx.symbols)} :
             IndexContinue(k, next, idx.symbols, idx.files, relationshipIndex)

\* executeQuery up to the await of ensureIndex: answered from the result cache
\* or refused at once; on an empty index ensureIndex starts buildIndex, on any
\* other it returns
IndexQueryStart(query, scope) ==
    LET cached == LRUGet(queryCache, getQueryCacheKey(query, scope))
    IN IF cached.found /\ ~isIndexStale(scope)
       THEN /\ IndexOpStarted
            /\ queryCache' = cached.cache
            /\ queryLast' = QueryRecord("executeQuery", query, scope, <<>>, "ok", TRUE,
                                        [cached.value EXCEPT !.cached = TRUE], "none")
            /\ UNCHANGED <<symbolIndex, relationshipIndex, fileIndex, tasks, layoutHook>>
       ELSE IF Len(validateQuery(query)) > 0
       THEN /\ IndexOpStarted
            /\ queryLast' = QueryRecord("executeQuery", query, scope, <<>>,
                                        "QUERY_EXECUTION_FAILED", FALSE,
                                        QueryResult(<<>>, <<>>, 0), "none")
            /\ UNCHANGED <<symbolIndex, relationshipIndex, fileIndex, queryCache, tasks, layoutHook>>
       ELSE IF Len(symbolIndex) = 0
       THEN IndexBuildStart("executeQuery", query, scope)
       ELSE /\ IndexOpStarted
            /\ tasks' = [tasks EXCEPT !.index =
                           Append(@, IndexTask("executeQuery", "done", query, scope, <<>>))]
            /\ UNCHANGED <<symbolIndex, relationshipIndex, fileIndex, queryCache, queryLast>>

\* updateIndex up to its first await
IndexUpdateStart(uris) ==
    /\ IndexOpStarted
    /\ tasks' = [tasks EXCEPT !.index = Append(@, IndexTask("updateIndex", "symbols", NoQuery, NoScope, uris))]
    /\ UNCHANGED <<symbolIndex, relationshipIndex, fileIndex, queryCache, queryLast>>

\* getDocumentSymbols(uris[i]) has settled: the file is indexed or skipped; after
\* the last file updateRelationshipIndex starts buildRelationshipIndex
IndexResumeSymbols(k, answer) ==
    LET task == tasks.index[k]
    IN /\ k \in 1..Len(tasks.index)
       /\ task.pc = "symbols"
       /\ ~AnswerReady
       /\ \E idx \in {IndexFiles([symbols |-> symbolIndex, files |-> fileIndex],
                                  <<task.uris[task.i]>>, <<answer>>, 1)} :
          \E next \in {IF task.i < Len(task.uris) THEN [task EXCEPT !.i = @ + 1]
                        ELSE NextFile(task, idx.symbols)} :
             IndexContinue(k, next, idx.symbols, idx.files, relationshipIndex)

\* getDocumentText(file) has settled: the relationship list of the file is set
\* and the loop of buildRelationshipIndex goes on
IndexResumeText(k) ==
    LET task == tasks.index[k]
        symbols == IF IndexHas(symbolIndex, task.file) THEN IndexGet(symbolIndex, task.file) ELSE <<>>
    IN /\ k \in 1..Len(tasks.index)
       /\ task.pc = "text"
       /\ ~AnswerReady
       /\ \E relIndex \in {IndexSet(relationshipIndex, task.file, extractRelationships(<<>>, symbols))} :
          \E next \in {NextFile(task, symbolIndex)} :
             IndexContinue(k, next, symbolIndex, fileIndex, relIndex)

IndexClear ==
    /\ IndexOpStarted
    /\ symbolIndex' = <<>>
    /\ relationshipIndex' = <<>>
    /\ fileIndex' = <<>>
    /\ queryCache' = <<>>
    /\ tasks' = [tasks EXCEPT !.index = AfterClear(@)]
    /\ queryLast' = QueryRecord("clearIndex", NoQuery, NoScope, <<>>, "ok", FALSE,
                                QueryResult(<<>>, <<>>, 0), "none")

IndexNext ==
    \/ \E scope \in IndexScopes : IndexQueryStart(QueryAll, scope)
    \/ \E scope \in IndexScopes : IndexBuildStart("buildIndex", NoQuery, scope)
    \/ \E uris \in IndexUpdateInputs : IndexUpdateStart(uris)
    \/ IndexClear
    \/ \E k \in 1..Len(tasks.index) : IndexResumeFiles(k)
    \/ \E k \in 1..Len(tasks.index), answer \in IndexProviderAnswers : IndexResumeSymbols(k, answer)
    \/ \E k \in 1..Len(tasks.index) : IndexResumeText(k)
    \/ \E k \in 1..Len(tasks.index) : IndexComplete(k)

IndexSpec == AsyncInit /\ [][IndexNext]_vars

(* ============================ useGraphLayout ========================== *)
\* computeLayout calls issued in one run
MaxLayoutRequests == 3

\* what codemapService.getLayout?.() and optimizeLayout?.() answer: a result,
\* undefined, or a rejection; what analyzeLayoutQuality answers: a score of at
\* least qualityThreshold, or a lower one with suggestions (a failed or missing
\* analysis yields no suggestions and counts as "good" here)
LayoutAnswers == {"result", "undefined", "threw"}
QualityAnswers == {"good", "poor"}

LayoutWrite(value, by) == [value |-> value, by |-> by]
LayoutAborted(st, r) == r.id \in st.aborted

\* a request leaves computeLayout through its finally block
ComputeLayoutFinally(st, r) ==
    [st EXCEPT !.requests = @ \ {r},
               !.loading = IF LayoutAborted(st, r) THEN @ ELSE FALSE]

\* computeLayout(data) for a graph without nodes: setLayout(null) and return
ComputeLayoutEmpty ==
    /\ layoutHook.issued < MaxLayoutRequests
    /\ layoutHook' = [layoutHook EXCEPT !.issued = @ + 1,
                                        !.layout = LayoutWrite("null", layoutHook.issued + 1)]
    /\ UNCHANGED <<now, cacheVars, queryVars, call, layout, channel, hook, tasks>>

\* computeLayout(data) up to its await of getLayout: the controller in the ref
\* is aborted and replaced; the optimizeLayout this call may reach is the one of
\* the same render, which reads the layout state of that render
ComputeLayoutStart ==
    /\ layoutHook.issued < MaxLayoutRequests
    /\ LET id == layoutHook.issued + 1
       IN layoutHook' =
            [layoutHook EXCEPT
                !.issued = id,
                !.aborted = IF layoutHook.abortControllerRef # 0
                            THEN @ \cup {layoutHook.abortControllerRef} ELSE @,
                !.abortControllerRef = id,
                !.loading = TRUE,
                !.error = FALSE,
                !.requests = @ \cup {[id |-> id, pc |-> "getLayout",
                                      layout |-> layoutHook.layout.value]}]
    /\ UNCHANGED <<now, cacheVars, queryVars, call, layout, channel, hook, tasks>>

\* computeLayout resumes after getLayout
ComputeLayoutAfterGetLayout(r, answer) ==
    /\ r \in layoutHook.requests
    /\ r.pc = "getLayout"
    /\ layoutHook' =
         IF LayoutAborted(layoutHook, r) THEN ComputeLayoutFinally(layoutHook, r)
         ELSE IF answer = "threw"
         THEN ComputeLayoutFinally([layoutHook EXCEPT !.error = TRUE], r)
         ELSE IF answer = "undefined" THEN ComputeLayoutFinally(layoutHook, r)
         ELSE [layoutHook EXCEPT !.layout = LayoutWrite("result", r.id),
                                 !.currentDataRef = TRUE,
                                 !.requests = (@ \ {r}) \cup {[r EXCEPT !.pc = "quality"]}]
    /\ UNCHANGED <<now, cacheVars, queryVars, call, layout, channel, hook, tasks>>

\* computeLayout resumes after analyzeLayoutQuality: setQuality, and
\* optimizeLayout(5) when the score is low, up to its await
ComputeLayoutAfterQuality(r, answer) ==
    /\ r \in layoutHook.requests
    /\ r.pc = "quality"
    /\ LET st == [layoutHook EXCEPT !.quality = LayoutWrite("quality", r.id)]
       IN layoutHook' =
            IF answer = "good" \/ r.layout = "null" \/ ~st.currentDataRef
            THEN ComputeLayoutFinally(st, r)
            ELSE [st EXCEPT !.loading = TRUE,
                            !.requests = (@ \ {r}) \cup {[r EXCEPT !.pc = "optimize"]}]
    /\ UNCHANGED <<now, cacheVars, queryVars, call, layout, channel, hook, tasks>>

\* optimizeLayout resumes after codemapService.optimizeLayout
OptimizeLayoutAfterOptimize(r, answer) ==
    /\ r \in layoutHook.requests
    /\ r.pc = "optimize"
    /\ layoutHook' =
         IF answer = "result"
         THEN [layoutHook EXCEPT !.layout = LayoutWrite("optimized", r.id),
                                 !.requests = (@ \ {r}) \cup {[r EXCEPT !.pc = "requality"]}]
         ELSE ComputeLayoutFinally([layoutHook EXCEPT !.loading = FALSE], r)
    /\ UNCHANGED <<now, cacheVars, queryVars, call, layout, channel, hook, tasks>>

\* optimizeLayout resumes after its analyzeLayoutQuality, and computeLayout ends
OptimizeLayoutAfterQuality(r) ==
    /\ r \in layoutHook.requests
    /\ r.pc = "requality"
    /\ layoutHook' = ComputeLayoutFinally([layoutHook EXCEPT !.quality = LayoutWrite("requality", r.id),
                                                              !.loading = FALSE], r)
    /\ UNCHANGED <<now, cacheVars, queryVars, call, layout, channel, hook, tasks>>

GraphLayoutNext ==
    \/ ComputeLayoutEmpty
    \/ ComputeLayoutStart
    \/ \E r \in layoutHook.requests, answer \in LayoutAnswers : ComputeLayoutAfterGetLayout(r, answer)
    \/ \E r \in layoutHook.requests, answer \in QualityAnswers : ComputeLayoutAfterQuality(r, answer)
    \/ \E r \in layoutHook.requests, answer \in LayoutAnswers : OptimizeLayoutAfterOptimize(r, answer)
    \/ \E r \in layoutHook.requests : OptimizeLayoutAfterQuality(r)

GraphLayoutSpec == Init /\ [][GraphLayoutNext]_vars

(* ------------- queries on files whose symbol ids coincide ------------- *)
\* the workspace holds a.ts and a_ts; a scope that names a_ leaves a.ts out
ScopeUpdateInputs == {<<FileA>>, <<FileA_>>, <<FileA, FileA_>>, <<FilePy, FileA_>>}
ScopeScopes == {NoScope, Scope(Some(<<"a", "_">>), NoList, NoFlag), Scope(Some(<<"b", ".">>), NoList, NoFlag)}
ScopeQueries ==
    {QueryAll,
     Query(Some(<<Star>>), NoList, NoWhere,
           [has |-> TRUE, depth |-> 1, direction |-> "both", relationshipTypes |-> NoList],
           NoNumber, NoNumber)}

ScopeNext ==
    \/ \E query \in ScopeQueries, scope \in ScopeScopes : ExecuteQuery(query, scope)
    \/ \E uris \in ScopeUpdateInputs, answers \in [1..2 -> ProviderAnswers] : UpdateIndex(uris, answers)
    \/ ClearIndex

ScopeSpec == Init /\ [][ScopeNext]_vars

(* ====================== properties of the CachingService ================ *)
\* the step completes the cache operation op
StepOf(op) == opCount' = opCount + 1 /\ lastOp'.op = op

CountEntries(st) ==
    Len(st["symbols"]) + Len(st["references"]) + Len(st["relationships"])
    + Len(st["graph-data"]) + Len(st["layout"]) + Len(st["query-result"])

TotalSize(st) ==
    SumSizes(st["symbols"]) + SumSizes(st["references"]) + SumSizes(st["relationships"])
    + SumSizes(st["graph-data"]) + SumSizes(st["layout"]) + SumSizes(st["query-result"])

StatsConsistent(st, s) == s.entryCount = CountEntries(st) /\ s.totalSize = TotalSize(st)

\* every entry of st other than <<store, key>> is in st2, unchanged
OthersKept(st, st2, store, key) ==
    \A t \in StoreNames : \A i \in 1..Len(st[t]) :
        (t # store \/ st[t][i].key # key) =>
            MapHas(st2[t], st[t][i].key) /\ MapGet(st2[t], st[t][i].key) = st[t][i]

\* every entry of st2 is an entry of st, unchanged
NothingNew(st, st2) ==
    \A t \in StoreNames : \A i \in 1..Len(st2[t]) :
        MapHas(st[t], st2[t][i].key) /\ MapGet(st[t], st2[t][i].key) = st2[t][i]

\* stat succeeds for every dependency of the entry
DependenciesReadable(entry) ==
    \A i \in 1..Len(entry.dependencies.list) : ~fileStat[entry.dependencies.list[i]].threw

\* C1: set(store,k,v) followed immediately by get(store,k), no file having changed
\* in between and every dependency's stat succeeding, returns v, adds one to
\* hitCount and leaves missCount alone.
C1_RoundTrip ==
    [][(/\ lastOp.op = "set"
        /\ StepOf("get")
        /\ lastOp'.store = lastOp.store
        /\ lastOp'.key = lastOp.key
        /\ DependenciesReadable(MapGet(stores[lastOp.store], lastOp.key)))
       => (/\ lastOp'.result = Found(lastOp.data)
           /\ stats'.hitCount = stats.hitCount + 1
           /\ stats'.missCount = stats.missCount)]_vars

\* C2: a get of an entry older than ttl returns absent, adds one to missCount and
\* removes the entry; a get returns data only of an entry at most ttl old; a get
\* neither creates an entry nor moves a timestamp, and set stamps the entry with
\* the time of the set: reads never extend an entry's life.
C2_TtlExpiryOnRead ==
    [][/\ StepOf("get") =>
            LET s == lastOp'.store
                k == lastOp'.key
            IN /\ (MapHas(stores[s], k) /\ now - MapGet(stores[s], k).timestamp > options.ttl)
                    => (/\ lastOp'.result = Absent
                        /\ stats'.missCount = stats.missCount + 1
                        /\ ~MapHas(stores'[s], k))
               /\ lastOp'.result.found
                    => (/\ MapHas(stores[s], k)
                        /\ now - MapGet(stores[s], k).timestamp <= options.ttl
                        /\ lastOp'.result.data = MapGet(stores[s], k).data)
               /\ \A t \in StoreNames : \A i \in 1..Len(stores'[t]) :
                    /\ MapHas(stores[t], stores'[t][i].key)
                    /\ MapGet(stores[t], stores'[t][i].key).timestamp = stores'[t][i].timestamp
                    /\ MapGet(stores[t], stores'[t][i].key).data = stores'[t][i].data
       /\ StepOf("set") => MapGet(stores'[lastOp'.store], lastOp'.key).timestamp = now]_vars

C2_Witness == lastOp.op = "get" /\ lastOp.outcome = "expired" /\ stats.hitCount > 0

\* the entry an eviction event of a set step names, as it was before the step
Evicted(ev) == MapGet(stores[ev.type], ev.key)

RECURSIVE EvictedSize(_, _)
EvictedSize(evs, n) == IF n = 0 THEN 0 ELSE Evicted(evs[n]).size + EvictedSize(evs, n - 1)

C4_StatsAccounting == StatsConsistent(stores, stats)

C4_Witness == lastOp.op = "cleanup" /\ lastOp.count > 0 /\ stats.entryCount > 0

\* C5: every get, whatever its outcome, fires the stats-changed signal at least once.
C5_GetFiresStatsChanged == lastOp.op = "get" => lastOp.statsFired >= 1

\* C6: invalidate of a present key removes that entry alone, adds one to
\* evictionCount and fires one eviction event, hit and miss counters unchanged;
\* of an absent key it changes nothing and fires nothing.
C6_Invalidate ==
    [][StepOf("invalidate") =>
        LET s == lastOp'.store
            k == lastOp'.key
        IN IF MapHas(stores[s], k)
           THEN /\ ~MapHas(stores'[s], k)
                /\ OthersKept(stores, stores', s, k)
                /\ NothingNew(stores, stores')
                /\ stats'.evictionCount = stats.evictionCount + 1
                /\ Len(lastOp'.evicted) = 1
                /\ lastOp'.evicted[1].key = k
                /\ stats'.hitCount = stats.hitCount
                /\ stats'.missCount = stats.missCount
           ELSE /\ stores' = stores
                /\ stats' = stats
                /\ options' = options
                /\ lastOp'.evicted = <<>>
                /\ lastOp'.statsFired = 0]_vars

C6_Witness == lastOp.op = "invalidate" /\ lastOp.count = 1 /\ stats.entryCount > 0

\* some dependency of the entry is stale for the oracle, or the oracle fails for it
DependencyTrouble(entry) ==
    /\ entry.dependencies.defined
    /\ \E i \in 1..Len(entry.dependencies.list) :
         LET stat == fileStat[entry.dependencies.list[i]]
         IN stat.threw \/ stat.mtime > 0 \/ stat.ctime > 0

\* C7: get never raises; on a TTL-expired entry, a stale dependency or a failing
\* oracle it is an ordinary miss: absent, the entry removed, missCount plus one.
C7_GetNeverRaises ==
    [][StepOf("get") =>
        LET s == lastOp'.store
            k == lastOp'.key
        IN /\ lastOp'.outcome # "raised"
           /\ (/\ MapHas(stores[s], k)
               /\ \/ now - MapGet(stores[s], k).timestamp > options.ttl
                  \/ DependencyTrouble(MapGet(stores[s], k)))
                => (/\ lastOp'.result = Absent
                    /\ ~MapHas(stores'[s], k)
                    /\ stats'.missCount = stats.missCount + 1
                    /\ stats'.hitCount = stats.hitCount)]_vars

C7_Witness == lastOp.op = "get" /\ lastOp.outcome = "stale" /\ fileStat["a.ts"].threw

\* C8: after optimizeCache every store holds at most maxEntries / 6 entries, a
\* store within that bound keeps all its entries, no entry is new or changed,
\* and stats agree with the trimmed stores.
C8_OptimizeTrims ==
    [][StepOf("optimize") =>
        /\ \A s \in StoreNames :
            /\ Len(stores'[s]) * 6 <= options.maxEntries
            /\ Len(stores[s]) * 6 <= options.maxEntries => stores'[s] = stores[s]
        /\ NothingNew(stores, stores')
        /\ StatsConsistent(stores', stats')]_vars

C8_Witness == lastOp.op = "optimize" /\ lastOp.count > 0 /\ stats.entryCount > 0

\* C9: neither get nor a cleanup tick removes an entry of the relationships store
\* whose age is within ttl.
C9_RelationshipsExpireOnlyByTtl ==
    [][(StepOf("get") \/ StepOf("cleanup")) =>
        \A i \in 1..Len(stores["relationships"]) :
            now - stores["relationships"][i].timestamp <= options.ttl
                => MapHas(stores'["relationships"], stores["relationships"][i].key)]_vars
\* suspended get i comes to its end in this step
GetCompletes(i) ==
    /\ i \in 1..Len(tasks.gets)
    /\ tasks'.gets = RemoveAt(tasks.gets, i)
    /\ lastOp'.op = "get"
    /\ opCount' = opCount

\* C31: a get that was suspended at a stat re-validates when it resumes: it
\* returns a hit only if the entry object it looked up is still stored under
\* its key, and when it finds the dependencies stale it does not delete an
\* entry that was set under the key after it looked the old one up
C31_ResumedGetRevalidates ==
    [][\A i \in 1..Len(tasks.gets) :
          GetCompletes(i) =>
             /\ lastOp'.outcome = "hit" => IsLive(stores, tasks.gets[i])
             /\ (/\ lastOp'.outcome = "stale"
                 /\ MapHas(stores[tasks.gets[i].store], tasks.gets[i].key)
                 /\ ~IsLive(stores, tasks.gets[i]))
                => MapHas(stores'[tasks.gets[i].store], tasks.gets[i].key)]_vars

\* C32: whenever an eviction event is delivered to a listener (by invalidate,
\* by the eviction loop of ensureSpace or by cleanup), the stats getCacheStats
\* returns at that moment already leave the evicted entry out: entryCount and
\* totalSize are the number and the total size of the entries then stored
C32_EvictionAccountingIsAtomic ==
    \A i \in 1..Len(tasks.observed) :
        /\ tasks.observed[i].stats.entryCount = tasks.observed[i].liveCount
        /\ tasks.observed[i].stats.totalSize = tasks.observed[i].liveSize

\* C33: the eviction of a set is least recently used first: of two stored
\* entries with equal access counts the one whose last access is older is
\* evicted before the other, so the more recently accessed one is evicted only
\* if the older one is evicted too, and then later
C33_EvictsLeastRecentlyUsedFirst ==
    [][StepOf("set") =>
        LET evs == lastOp'.evicted
            Position(e) == CHOOSE i \in 1..Len(evs) : evs[i].type = e.name /\ evs[i].key = e.key
            IsEvicted(e) == \E i \in 1..Len(evs) : evs[i].type = e.name /\ evs[i].key = e.key
            all == AllEntries(stores)
        IN \A i, j \in 1..Len(all) :
              (/\ all[i].entry.accessCount = all[j].entry.accessCount
               /\ all[i].entry.lastAccessed < all[j].entry.lastAccessed
               /\ IsEvicted(all[j]))
              => (IsEvicted(all[i]) /\ Position(all[i]) < Position(all[j]))]_vars

\* the set that was suspended first inserts its entry in this step
SetCompletes == tasks.sets # <<>> /\ tasks'.nextId = tasks.nextId + 1

\* C34: maxEntries is a maximum number of entries: when a set has completed,
\* the six stores together hold no more than options.maxEntries entries
C34_MaxEntriesBoundsTheEntryCount ==
    [][SetCompletes => Len(AllEntries(stores')) <= options'.maxEntries]_vars

\* C35: whenever no set is between its space check and its insertion, the total
\* size of the stored entries is at most options.maxSize (maxSize is never
\* lowered once entries are stored), also after sets that were under way at the
\* same time and after a set of one entry that is larger than maxSize
C35_TotalSizeWithinBudget ==
    tasks.sets = <<>> => calculateTotalCacheSize(stores) <= options.maxSize

(* ===================== properties of the QueryEngineService ============ *)
\* a completed executeQuery call of the step
ExecuteQueryStep ==
    /\ queryCount' = queryCount + 1
    /\ queryLast'.op = "executeQuery"
    /\ queryLast'.outcome = "ok"

\* select.symbols = ['*'], nothing else
IsStarQuery(query) ==
    /\ query.symbols = Some(<<Star>>)
    /\ ~query.where.has
    /\ ~query.traverse.has

\* scope membership as the claim words it
FileInScope(uri, scope) ==
    /\ (scope.path.has /\ scope.path.v # <<>>) => Includes(uri, scope.path.v)
    /\ (scope.language.has /\ scope.language.v # <<>>) => getLanguageFromUri(uri) = scope.language.v
    /\ (scope.includeTests.has /\ scope.includeTests.v) \/ ~Includes(uri, TestWord)

\* the indexed symbols of the in-scope files, in index order
InScopeSymbols(index, scope) ==
    Flatten([i \in 1..Len(index) |->
                IF FileInScope(index[i].key, scope) THEN index[i].value ELSE <<>>])

Occurrences(seq, x) == Cardinality({j \in 1..Len(seq) : seq[j] = x})

\* C10 as stated: a query selecting symbols ['*'] with no where and no
\* traverse clause returns every indexed symbol of an in-scope file exactly
\* once and no symbol of an out-of-scope file.
C10_StarQueryReturnsEveryInScopeSymbol ==
    [][(ExecuteQueryStep /\ IsStarQuery(queryLast'.query)) =>
        LET returned == queryLast'.result.symbols
            expected == InScopeSymbols(symbolIndex', queryLast'.scope)
        IN /\ \A i \in 1..Len(expected) : Occurrences(returned, expected[i]) = 1
           /\ \A j \in 1..Len(returned) : FileInScope(returned[j].uri, queryLast'.scope)]_vars

EffectiveLimit(query) ==
    IF ~query.limit.has \/ query.limit.v = 0 \/ query.limit.v > 1000 THEN 1000 ELSE query.limit.v

EffectiveOffset(query) == IF query.offset.has THEN query.offset.v ELSE 0

\* C10 amended: for such a query, a call that is not answered from the result
\* cache returns the indexed symbols of the in-scope files, in index order,
\* from position offset (0 when absent) up to limit of them (1000 when absent
\* or above 1000), each returned once and none from an out-of-scope file; a
\* call answered from the result cache returns the symbols stored with the
\* cached result.
C10_StarQueryReturnsInScopePage ==
    [][(ExecuteQueryStep /\ IsStarQuery(queryLast'.query)) =>
        LET returned == queryLast'.result.symbols
            expected == InScopeSymbols(symbolIndex', queryLast'.scope)
            first == EffectiveOffset(queryLast'.query) + 1
            last == EffectiveOffset(queryLast'.query) + EffectiveLimit(queryLast'.query)
            key == [query |-> queryLast'.query, scope |-> queryLast'.scope]
        IN IF queryLast'.fromCache
           THEN \E i \in 1..Len(queryCache) :
                    /\ queryCache[i].key = key
                    /\ returned = queryCache[i].value.value.symbols
           ELSE /\ returned = SubSeq(expected, first, IF last < Len(expected) THEN last ELSE Len(expected))
                /\ \A j \in 1..Len(returned) : FileInScope(returned[j].uri, queryLast'.scope)
                /\ (first = 1 /\ Len(expected) <= last) =>
                        \A i \in 1..Len(expected) : Occurrences(returned, expected[i]) = 1]_vars

\* a call answered from the index returned symbols while a file outside the
\* scope held symbols too
C10_Witness ==
    /\ queryLast.op = "executeQuery"
    /\ queryLast.outcome = "ok"
    /\ ~queryLast.fromCache
    /\ IsStarQuery(queryLast.query)
    /\ Len(queryLast.result.symbols) > 0
    /\ \E i \in 1..Len(symbolIndex) :
            /\ ~FileInScope(symbolIndex[i].key, queryLast.scope)
            /\ Len(symbolIndex[i].value) > 0

\* the symbols executeQueryInternal matches before any paging
MatchedSymbols(index, query, scope) ==
    IF query.symbols.has
    THEN SelectSeq(InScopeSymbols(index, scope),
                   LAMBDA sym : matchesSymbol(sym, query.symbols.v, query.where))
    ELSE <<>>

\* the relationships of the selected types in the in-scope files
MatchedRelationships(index, query, scope) ==
    IF query.relationships.has
    THEN SelectSeq(InScopeSymbols(index, scope),
                   LAMBDA rel : \E i \in 1..Len(query.relationships.v) :
                                    query.relationships.v[i] = rel.type)
    ELSE <<>>

\* the entry of the result cache a call answered from the cache read
CachedResult(cache, query, scope) ==
    LET key == [query |-> query, scope |-> scope]
    IN cache[CHOOSE i \in 1..Len(cache) : cache[i].key = key].value.value

\* C11 as stated: every result of executeQuery has total equal to
\* symbols.length + relationships.length, whatever limit, offset and traverse.
C11_TotalIsSumOfReturned ==
    (queryLast.op = "executeQuery" /\ queryLast.outcome = "ok") =>
        queryLast.result.total =
            Len(queryLast.result.symbols) + Len(queryLast.result.relationships)

\* C11 amended: a result computed with a traverse clause and at least one
\* matched symbol has total = symbols.length + relationships.length; any other
\* computed result has total = the number of matched symbols plus the number
\* of matched relationships before limit and offset are applied; a result
\* answered from the result cache carries the total it was stored with.
C11_TotalCountsMatches ==
    [][ExecuteQueryStep =>
        LET q == queryLast'.query
            r == queryLast'.result
            ms == MatchedSymbols(symbolIndex', q, queryLast'.scope)
            mr == MatchedRelationships(relationshipIndex', q, queryLast'.scope)
        IN IF queryLast'.fromCache
           THEN r.total = CachedResult(queryCache, q, queryLast'.scope).total
           ELSE IF q.traverse.has /\ Len(ms) > 0
           THEN r.total = Len(r.symbols) + Len(r.relationships)
           ELSE r.total = Len(ms) + Len(mr)]_vars

\* a computed result whose total exceeds what was returned
C11_Witness ==
    /\ queryLast.op = "executeQuery"
    /\ queryLast.outcome = "ok"
    /\ ~queryLast.fromCache
    /\ queryLast.result.total >
            Len(queryLast.result.symbols) + Len(queryLast.result.relationships)

\* the contiguous run of at most limit items of a list that starts after offset items
Page(list, query) ==
    LET offset == EffectiveOffset(query)
        rest == Len(list) - offset
        count == IF rest < 0 THEN 0
                 ELSE IF EffectiveLimit(query) < rest THEN EffectiveLimit(query) ELSE rest
    IN [count |-> count, items |-> [k \in 1..count |-> list[offset + k]]]

\* C12: for a valid query without a traverse clause the result computed by
\* executeQuery holds max(0, min(limit, matchedCount - offset)) symbols, the
\* contiguous slice of the matched symbols starting at offset in match order;
\* the same limit and offset are applied, independently, to the matched
\* relationships.
C12_PaginationWithoutTraversal ==
    [][(ExecuteQueryStep /\ ~queryLast'.fromCache /\ ~queryLast'.query.traverse.has) =>
        LET q == queryLast'.query
            r == queryLast'.result
            ms == MatchedSymbols(symbolIndex', q, queryLast'.scope)
            mr == MatchedRelationships(relationshipIndex', q, queryLast'.scope)
        IN /\ Len(r.symbols) = Page(ms, q).count
           /\ r.symbols = Page(ms, q).items
           /\ Len(r.relationships) = Page(mr, q).count
           /\ r.relationships = Page(mr, q).items]_vars

\* a page that starts after the first match and stops before the last one
C12_Witness ==
    /\ queryLast.op = "executeQuery"
    /\ queryLast.outcome = "ok"
    /\ ~queryLast.fromCache
    /\ ~queryLast.query.traverse.has
    /\ queryLast.query.offset = Some(1)
    /\ queryLast.query.limit = Some(1)
    /\ queryLast.result.total >= 3
    /\ Len(queryLast.result.symbols) = 1

IdSet(symbols) == {symbols[i].id : i \in 1..Len(symbols)}
KeySet(relationships) ==
    {relationships[i].sourceId \o <<"-">> \o relationships[i].targetId :
        i \in 1..Len(relationships)}

\* the symbol ids one step away from the ids of a set along relationships of
\* the in-scope files, by direction and type filter; a relationship whose
\* source-target key is in seeded (matched by select.relationships) is not followed
StepIds(ids, relationships, traversal, seeded) ==
    LET usable == {i \in 1..Len(relationships) :
                      /\ relationships[i].sourceId \o <<"-">> \o relationships[i].targetId \notin seeded
                      /\ traversal.relationshipTypes.has =>
                            \E k \in 1..Len(traversal.relationshipTypes.v) :
                                traversal.relationshipTypes.v[k] = relationships[i].type}
    IN {relationships[i].targetId : i \in {j \in usable :
            traversal.direction \in {"outgoing", "both"} /\ relationships[j].sourceId \in ids}}
       \cup
       {relationships[i].sourceId : i \in {j \in usable :
            traversal.direction \in {"incoming", "both"} /\ relationships[j].targetId \in ids}}

RECURSIVE ReachableIds(_, _, _, _, _)
ReachableIds(ids, depth, relationships, traversal, seeded) ==
    LET next == ids \cup StepIds(ids, relationships, traversal, seeded)
    IN IF depth = 0 \/ next = ids THEN ids
       ELSE ReachableIds(next, depth - 1, relationships, traversal, seeded)

\* the ids the traversal of a query visits in the current index
VisitedIds(query, scope, symIndex, relIndex) ==
    ReachableIds(IdSet(MatchedSymbols(symIndex, query, scope)),
                 IF query.traverse.depth > 10 THEN 10 ELSE query.traverse.depth,
                 InScopeSymbols(relIndex, scope), query.traverse,
                 KeySet(MatchedRelationships(relIndex, query, scope)))
    \cap IdSet(AllValues(symIndex))

ReachableFromMatched(query, scope, symIndex, relIndex) ==
    ReachableIds(IdSet(MatchedSymbols(symIndex, query, scope)), query.traverse.depth,
                 InScopeSymbols(relIndex, scope), query.traverse, {})
    \cap IdSet(AllValues(symIndex))

C15_InvalidQueryRaisesInvalidQuery ==
    [][(/\ queryCount' = queryCount + 1
        /\ queryLast'.op = "executeQuery"
        /\ Len(validateQuery(queryLast'.query)) > 0
        /\ ~MapHas(queryCache, [query |-> queryLast'.query, scope |-> queryLast'.scope])) =>
        /\ queryLast'.outcome = "INVALID_QUERY"
        /\ UNCHANGED <<symbolIndex, relationshipIndex, fileIndex, queryCache>>
        /\ queryLast'.fired = "none"]_vars

\* the pieces of a pattern between its '*'
RECURSIVE SplitStar(_)
SplitStar(pattern) ==
    LET stars == {i \in 1..Len(pattern) : pattern[i] = "*"}
        first == CHOOSE i \in stars : \A j \in stars : i <= j
    IN IF stars = {} THEN <<pattern>>
       ELSE <<SubSeq(pattern, 1, first - 1)>> \o SplitStar(SubSeq(pattern, first + 1, Len(pattern)))

\* the pieces occur in the name one after the other, from position from on
RECURSIVE PiecesInOrder(_, _, _, _)
PiecesInOrder(pieces, k, name, from) ==
    IF k > Len(pieces) THEN TRUE
    ELSE LET places == {p \in from..(Len(name) - Len(pieces[k]) + 1) :
                            SubSeq(name, p, p + Len(pieces[k]) - 1) = pieces[k]}
         IN /\ places # {}
            /\ PiecesInOrder(pieces, k + 1, name,
                             (CHOOSE p \in places : \A r \in places : p <= r) + Len(pieces[k]))

\* some part of the name fits the pattern, letter case aside
GlobFitsPart(pattern, name) ==
    PiecesInOrder(SplitStar(ToLowerCase(pattern)), 1, ToLowerCase(name), 1)

\* the whole name fits the pattern, letter case aside
RECURSIVE GlobFitsFrom(_, _, _, _)
GlobFitsFrom(pattern, i, name, j) ==
    IF i > Len(pattern) THEN j > Len(name)
    ELSE IF pattern[i] = "*"
         THEN \E j2 \in j..(Len(name) + 1) : GlobFitsFrom(pattern, i + 1, name, j2)
         ELSE /\ j <= Len(name)
              /\ ToLowerChar(name[j]) = ToLowerChar(pattern[i])
              /\ GlobFitsFrom(pattern, i + 1, name, j + 1)

GlobFitsWhole(pattern, name) == GlobFitsFrom(pattern, 1, name, 1)

\* a call computed for a query that only selects symbols by name
NameQueryStep ==
    /\ ExecuteQueryStep
    /\ ~queryLast'.fromCache
    /\ queryLast'.query.symbols.has
    /\ ~queryLast'.query.where.has
    /\ ~queryLast'.query.traverse.has

\* C18 as stated: a pattern matches a name only if the whole name fits it,
\* letter case aside and '*' the only wildcard; with 'Foo' and 'foo_bar'
\* indexed, select.symbols = ['Foo*'] matches only 'Foo'.
C18_GlobMatchesWholeName ==
    [][NameQueryStep =>
        \A i \in 1..Len(queryLast'.result.symbols) :
            /\ \E k \in 1..Len(queryLast'.query.symbols.v) :
                    GlobFitsWhole(queryLast'.query.symbols.v[k], queryLast'.result.symbols[i].name)
            /\ queryLast'.query.symbols.v = <<<<"F", "o", "o", "*">>>> =>
                    queryLast'.result.symbols[i].name = NameFoo]_vars

\* C18 amended: a pattern matches a name when some part of the name fits it,
\* letter case aside, '*' standing for any run of characters: the symbols
\* returned are those of the in-scope files with such a name, so
\* select.symbols = ['Foo*'] matches 'Foo' and 'foo_bar' alike.
C18_GlobMatchesPartOfName ==
    [][NameQueryStep =>
        LET q == queryLast'.query
            fitting == SelectSeq(InScopeSymbols(symbolIndex', queryLast'.scope),
                                 LAMBDA sym : \E k \in 1..Len(q.symbols.v) :
                                                GlobFitsPart(q.symbols.v[k], sym.name))
        IN queryLast'.result.symbols = Page(fitting, q).items]_vars

\* a name was matched by a pattern that fits only its end
C18_Witness ==
    /\ queryLast.op = "executeQuery"
    /\ queryLast.outcome = "ok"
    /\ ~queryLast.fromCache
    /\ queryLast.query.symbols = Some(<<<<"b", "a", "r">>>>)
    /\ \E i \in 1..Len(queryLast.result.symbols) : queryLast.result.symbols[i].name = NameFooBar

\* the keys of the result cache, in its order
CacheKeys(cache) == [i \in 1..Len(cache) |-> cache[i].key]

\* a completed executeQuery, with the key it looked up
LookupKey == [query |-> queryLast'.query, scope |-> queryLast'.scope]

\* C19 as stated: the result cache never holds more than 100 entries, and a
\* result inserted into a full cache evicts the entry that was inserted
\* earliest, however recently entries were read by cache hits. (While the
\* queries FillQuery(1..100) are all cached none was evicted yet, so
\* FillQuery(1) is the one inserted earliest.)
C19_EvictsEarliestInserted ==
    [][(/\ queryCount' = queryCount + 1
        /\ queryLast'.op = "executeQuery"
        /\ ~queryLast'.fromCache
        /\ Len(queryCache) = 100
        /\ \A k \in 1..100 : MapHas(queryCache, [query |-> FillQuery(k), scope |-> NoScope])) =>
        /\ Len(queryCache') <= 100
        /\ ~MapHas(queryCache', [query |-> FillQuery(1), scope |-> NoScope])]_vars

\* C19 amended: the result cache never holds more than 100 entries; a cache
\* hit moves the entry read to the end of the cache's order and a computed
\* result is added at the end; a result inserted into a full cache evicts the
\* first entry of that order, the least recently used one (the one whose last
\* insertion or hit is the oldest).
C19_EvictsLeastRecentlyUsed ==
    [][(queryCount' = queryCount + 1 /\ queryLast'.op = "executeQuery"
        /\ queryLast'.outcome = "ok") =>
        /\ Len(queryCache) <= 100
        /\ Len(queryCache') <= 100
        /\ IF queryLast'.fromCache
           THEN /\ CacheKeys(queryCache') =
                        SelectSeq(CacheKeys(queryCache), LAMBDA key : key # LookupKey)
                        \o <<LookupKey>>
                /\ MapHas(queryCache, LookupKey)
           ELSE /\ ~MapHas(queryCache, LookupKey)
                /\ CacheKeys(queryCache') =
                        (IF Len(queryCache) = 100 THEN Tail(CacheKeys(queryCache))
                         ELSE CacheKeys(queryCache)) \o <<LookupKey>>]_vars

\* the full cache lost the second query issued while the first one, read by a
\* hit in between, is still there
C19_Witness ==
    /\ Len(queryCache) = 100
    /\ MapHas(queryCache, [query |-> FillQuery(1), scope |-> NoScope])
    /\ ~MapHas(queryCache, [query |-> FillQuery(2), scope |-> NoScope])
    /\ MapHas(queryCache, [query |-> FillQuery(101), scope |-> NoScope])
    /\ queryCount = 102

\* what the result cache stores under a key
StoredResult(cache, key) == cache[CHOOSE i \in 1..Len(cache) : cache[i].key = key].value.value

\* C20: the result cache tracks no staleness. A result executeQuery(q, scope)
\* computed is stored; the stored result stays as it is through buildIndex and
\* updateIndex and every other call except clearIndex (and capacity eviction);
\* a later executeQuery(q, scope) answers its symbols and relationships with
\* cached = true whatever the index holds; clearIndex empties the cache, and
\* a call that finds nothing stored is computed (cached = false) against the
\* index of that moment.
C20_ResultCacheTracksNoStaleness ==
    [][(queryCount' = queryCount + 1) =>
        /\ (queryLast'.op = "executeQuery" /\ queryLast'.outcome = "ok") =>
                IF MapHas(queryCache, LookupKey)
                THEN /\ queryLast'.fromCache
                     /\ queryLast'.result.cached
                     /\ queryLast'.result.symbols = StoredResult(queryCache, LookupKey).symbols
                     /\ queryLast'.result.relationships =
                            StoredResult(queryCache, LookupKey).relationships
                ELSE /\ ~queryLast'.fromCache
                     /\ ~queryLast'.result.cached
                     /\ StoredResult(queryCache', LookupKey).symbols = queryLast'.result.symbols
                     /\ StoredResult(queryCache', LookupKey).relationships =
                            queryLast'.result.relationships
                     /\ ~queryLast'.query.traverse.has =>
                            queryLast'.result.symbols =
                                Page(MatchedSymbols(symbolIndex', queryLast'.query, queryLast'.scope),
                                     queryLast'.query).items
        /\ IF queryLast'.op = "clearIndex"
           THEN queryCache' = <<>>
           ELSE Len(queryCache) < QueryCacheCapacity =>
                    \A i \in 1..Len(queryCache) :
                        /\ MapHas(queryCache', queryCache[i].key)
                        /\ StoredResult(queryCache', queryCache[i].key) = queryCache[i].value.value]_vars

\* a call answered from the cache with a result the index no longer gives
C20_Witness ==
    /\ queryLast.op = "executeQuery"
    /\ queryLast.fromCache
    /\ queryLast.result.cached
    /\ ~queryLast.query.traverse.has
    /\ queryLast.result.symbols = <<>>
    /\ Len(MatchedSymbols(symbolIndex, queryLast.query, queryLast.scope)) > 0
    /\ ~queryLast.query.offset.has

(* ====================== properties of the index ======================= *)
BuildIndexStep ==
    /\ queryCount' = queryCount + 1
    /\ queryLast'.op = "buildIndex"

UpdateIndexStep ==
    /\ queryCount' = queryCount + 1
    /\ queryLast'.op = "updateIndex"

\* C22: updateIndex(uris) never raises and replaces the named files only. A
\* file that is not named, and a named file whose analysis fails, keep their
\* symbol list and file metadata (or stay absent); a named file whose analysis
\* succeeds gets the flattened new list and fresh metadata; afterwards every
\* file of the symbol index has its relationship list rebuilt.
C22_UpdateIndexReplacesNamedFilesOnly ==
    [][UpdateIndexStep =>
       \A answers \in [1..2 -> ProviderAnswers] :
        LET uris == queryLast'.uris IN
        UpdateIndex(uris, answers) =>
            /\ queryLast'.outcome = "ok"
            /\ \A f \in Files :
                LET named == \E i \in 1..Len(uris) : uris[i] = f
                    at == CHOOSE i \in 1..Len(uris) : uris[i] = f
                IN IF named /\ ~answers[at].threw
                   THEN /\ IndexHas(symbolIndex', f)
                        /\ IndexGet(symbolIndex', f) = indexSymbols(answers[at].symbols, f)
                        /\ IndexHas(fileIndex', f)
                        /\ IndexGet(fileIndex', f).symbolCount = Len(IndexGet(symbolIndex', f))
                   ELSE /\ IndexHas(symbolIndex', f) <=> IndexHas(symbolIndex, f)
                        /\ IndexHas(fileIndex', f) <=> IndexHas(fileIndex, f)
                        /\ IndexHas(symbolIndex, f) =>
                                IndexGet(symbolIndex', f) = IndexGet(symbolIndex, f)
                        /\ IndexHas(fileIndex, f) =>
                                IndexGet(fileIndex', f) = IndexGet(fileIndex, f)
            /\ \A f \in Files :
                IndexHas(symbolIndex', f) =>
                    /\ IndexHas(relationshipIndex', f)
                    /\ IndexGet(relationshipIndex', f) =
                            extractRelationships(<<>>, IndexGet(symbolIndex', f))]_vars

\* an update naming two files after which the one indexed before it still has
\* its one symbol, the other has a tree of two, and a third file is absent
C22_Witness ==
    /\ queryLast.op = "updateIndex"
    /\ queryLast.uris = <<FilePy, FileA>>
    /\ Len(symbolIndex) = 2
    /\ symbolIndex[1].key = FileA
    /\ Len(symbolIndex[1].value) = 1
    /\ symbolIndex[2].key = FilePy
    /\ Len(symbolIndex[2].value) = 2
    /\ IndexHas(relationshipIndex, FileA)
    /\ IndexHas(relationshipIndex, FilePy)

\* C23: ids of the query index do not collide across files. Two symbols whose
\* files differ get different ids, whatever characters the file identifiers
\* and names hold.
C23_IdsDifferAcrossFiles ==
    (call.fn = "generateSymbolId" /\ call.done /\ call.input[1].fileUri # call.input[2].fileUri)
        => call.output[1] # call.output[2]

\* suspended index operation k returns in this step
IndexCompletes(k) ==
    /\ k \in 1..Len(tasks.index)
    /\ tasks.index[k].pc = "done"
    /\ tasks'.index = RemoveAt(tasks.index, k)

FileKeys(index) == {index[i].key : i \in 1..Len(index)}

\* C39: whenever no index operation is under way, the symbol index, the file
\* index and the relationship index have the same file keys and every file's
\* symbolCount is the length of its symbol list; the three maps are empty at
\* construction and after clearIndex
C39_IndexConsistency ==
    /\ tasks.index = <<>> =>
          /\ FileKeys(symbolIndex) = FileKeys(fileIndex)
          /\ FileKeys(symbolIndex) = FileKeys(relationshipIndex)
          /\ \A f \in FileKeys(fileIndex) \cap FileKeys(symbolIndex) :
                IndexGet(fileIndex, f).symbolCount = Len(IndexGet(symbolIndex, f))
    /\ (tasks.index = <<>> /\ queryLast.op \in {"init", "clearIndex"}) =>
          symbolIndex = <<>> /\ fileIndex = <<>> /\ relationshipIndex = <<>>

\* the traversal branch of executeQueryInternal was taken
TraversalDone ==
    /\ call.fn = "executeQueryInternal"
    /\ call.done
    /\ Len(call.output.symbols) > 0
InList(list, x) == list.has /\ \E i \in 1..Len(list.v) : list.v[i] = x
TouchesReturnedSymbol(rel) ==
    \E i \in 1..Len(call.output.symbols) :
        call.output.symbols[i].id \in {rel.sourceId, rel.targetId}
\* the keys traverseRelationships added to the visited relationships
FollowedKeys ==
    LET q == call.input.query
        matched == SelectSeq(InScopeValues(call.input.symIndex, call.input.scope),
                             LAMBDA sym : matchesSymbol(sym, q.symbols.v, q.where))
        startIds == Dedup([i \in 1..Len(matched) |-> matched[i].id])
        visited == traverseRelationships(startIds, q.traverse, startIds, <<>>,
                                         call.input.scope, call.input.relIndex)
    IN {visited.relationships[i] : i \in 1..Len(visited.relationships)}

C38_ResultsAreInScope ==
    [][ExecuteQueryStep =>
          \A i \in 1..Len(queryLast'.result.symbols) :
             FileInScope(queryLast'.result.symbols[i].uri, queryLast'.scope)]_vars

(* ================= properties of the GraphLayoutService ================ *)
ForceDirectedDone ==
    /\ layout.pc = "done"
    /\ layout.fn = "computeLayout"
    /\ layout.algorithm = "force-directed"
    /\ layout.outcome = "ok"

\* Math.sqrt(vx * vx + vy * vy), rounded down
Speed(node) == Sqrt(OrZero(node.vx) * OrZero(node.vx) + OrZero(node.vy) * OrZero(node.vy))

IsPinned(node) == node.fx.has /\ node.fy.has

\* C24: the force-directed pass ends with converged = true, every node's final
\* speed below 0.1 and at most iterations steps used, or with converged =
\* false and exactly iterations steps used; the step counter never exceeds
\* the cap.
C24_ForceDirectedReport ==
    /\ layout.pc = "loop" => layout.run.iteration <= layout.run.options.iterations
    /\ ForceDirectedDone =>
        /\ layout.result.iterations <= layout.options.iterations
        /\ layout.result.converged =>
                \A i \in 1..Len(layout.result.nodes) :
                    Speed(layout.heap[layout.result.nodes[i]]) < ConvergenceThreshold
        /\ ~layout.result.converged => layout.result.iterations = layout.options.iterations

\* C24 as amended: with converged = true at most iterations steps were used
\* and every node that is not pinned had a speed below 0.1 in the last step,
\* before that step's velocity decay, so that its final speed is at most 0.1
\* times velocityDecay; with converged = false exactly iterations steps were used;
\* the step counter never exceeds the cap.
C24_ForceDirectedReportOfMovingNodes ==
    /\ layout.pc = "loop" => layout.run.iteration <= layout.run.options.iterations
    /\ ForceDirectedDone =>
        /\ layout.result.iterations <= layout.options.iterations
        /\ layout.result.converged =>
                /\ layout.result.iterations >= 1
                /\ layout.run.maxVelocity < ConvergenceThreshold
                /\ \A i \in 1..Len(layout.result.nodes) :
                        ~IsPinned(layout.heap[layout.result.nodes[i]]) =>
                            Speed(layout.heap[layout.result.nodes[i]]) * 100
                                <= ConvergenceThreshold * layout.options.velocityDecay
        /\ ~layout.result.converged => layout.result.iterations = layout.options.iterations

\* a pass that converged in its second step with a node still moving slowly
C24_Witness ==
    /\ ForceDirectedDone
    /\ layout.result.converged
    /\ layout.result.iterations = 2
    /\ \E i \in 1..Len(layout.result.nodes) :
            /\ ~IsPinned(layout.heap[layout.result.nodes[i]])
            /\ Speed(layout.heap[layout.result.nodes[i]]) > 0

HierarchicalDone ==
    /\ layout.pc = "done"
    /\ layout.fn = "computeLayout"
    /\ layout.algorithm = "hierarchical"
    /\ layout.outcome = "ok"

\* the ids that a path of at least one edge of edges leads to from id
RECURSIVE ReachedWithin(_, _, _)
ReachedWithin(from, edges, steps) ==
    IF steps = 0 THEN {}
    ELSE LET next == {edges[k].target : k \in {j \in 1..Len(edges) : edges[j].source \in from}}
         IN next \cup ReachedWithin(next, edges, steps - 1)

ReachedFrom(id, edges) == ReachedWithin({id}, edges, Len(edges))

\* the ids on a cycle of edges, and those a path leads to from a cycle
OnOrBehindCycle(ids, edges) ==
    LET onCycle == {id \in ids : id \in ReachedFrom(id, edges)}
    IN {id \in ids : id \in onCycle \/ \E c \in onCycle : id \in ReachedFrom(c, edges)}

\* the levels on which buildHierarchyLevels puts the node object r of the result
LevelsOf(r) ==
    LET levels == buildHierarchyLevels(layout.heap, layout.result.nodes, layout.result.edges)
    IN {l \in 1..Len(levels) : \E n \in 1..Len(levels[l]) : levels[l][n] = r}

\* C25: in a hierarchical layout every node is on exactly one level; on an
\* acyclic graph a node without incoming edges is on the first level and every
\* other node is on a later level than each of its direct predecessors; the
\* nodes on or behind a cycle form one last level. A later level lies further
\* down (larger y) in the result, one level shares one y.
C25_HierarchicalLevels ==
    HierarchicalDone =>
        LET refs == layout.result.nodes
            edges == layout.result.edges
            levels == buildHierarchyLevels(layout.heap, refs, edges)
            idOf(i) == layout.heap[refs[i]].id
            ids == {idOf(i) : i \in 1..Len(refs)}
            stuck == OnOrBehindCycle(ids, edges)
            levelOf(i) == CHOOSE l \in LevelsOf(refs[i]) : TRUE
        IN /\ \A i \in 1..Len(refs) :
                /\ Cardinality(LevelsOf(refs[i])) = 1
                /\ Cardinality({<<l, n>> \in (1..Len(levels)) \X (1..Len(refs)) :
                                    n <= Len(levels[l]) /\ levels[l][n] = refs[i]}) = 1
           /\ \A l \in 1..Len(levels) : Len(levels[l]) > 0
           /\ \A i, j \in 1..Len(refs) :
                /\ levelOf(i) = levelOf(j) => layout.heap[refs[i]].y = layout.heap[refs[j]].y
                /\ levelOf(i) < levelOf(j) =>
                        OrZero(layout.heap[refs[i]].y) < OrZero(layout.heap[refs[j]].y)
           /\ \A i \in 1..Len(refs) :
                idOf(i) \notin stuck =>
                    /\ (\A k \in 1..Len(edges) : edges[k].target # idOf(i)) => levelOf(i) = 1
                    /\ \A j \in 1..Len(refs) :
                            (\E k \in 1..Len(edges) :
                                edges[k].source = idOf(j) /\ edges[k].target = idOf(i))
                                => levelOf(j) < levelOf(i)
           /\ \A i \in 1..Len(refs) :
                idOf(i) \in stuck =>
                    /\ levelOf(i) = Len(levels)
                    /\ \A j \in 1..Len(refs) : levelOf(j) = Len(levels) => idOf(j) \in stuck

\* the diamond a -> b, a -> c, b -> d, c -> d with a short cut a -> d on three levels
C25_Witness ==
    /\ HierarchicalDone
    /\ Len(layout.result.nodes) = 4
    /\ LET level(i) == CHOOSE l \in LevelsOf(layout.result.nodes[i]) : TRUE
       IN /\ level(1) = 1
          /\ level(2) = 2
          /\ level(3) = 2
          /\ level(4) = 3

\* a cycle b <-> c behind the root a: a on the first level, b and c on the last
C25_WitnessCycle ==
    /\ HierarchicalDone
    /\ Len(layout.result.nodes) = 3
    /\ OnOrBehindCycle({"a", "b", "c"}, layout.result.edges) = {"b", "c"}
    /\ LevelsOf(layout.result.nodes[1]) = {1}
    /\ LevelsOf(layout.result.nodes[2]) = {2}
    /\ LevelsOf(layout.result.nodes[3]) = {2}

ClusteredDone ==
    /\ layout.pc = "done"
    /\ layout.fn = "computeLayout"
    /\ layout.algorithm = "clustered"
    /\ layout.outcome = "ok"

\* the ids an undirected path of edges joins to id, id included
ComponentOf(id, edges) ==
    {id} \cup ReachedFrom(id, edges \o [k \in 1..Len(edges) |->
                                            GraphEdge(edges[k].target, edges[k].source)])

\* C26: a clustered layout splits the nodes into their undirected connected
\* components, each node in exactly one, and runs the force-directed routine
\* once per component on exactly the edges with both ends in that component.
C26_ClustersGetInducedEdges ==
    ClusteredDone =>
        LET refs == layout.data.nodes
            edges == layout.data.edges
            ids == {layout.heap[refs[i]].id : i \in 1..Len(refs)}
            runs == layout.given
            idsOf(g) == {runs[g].nodes[n] : n \in 1..Len(runs[g].nodes)}
        IN /\ \A id \in ids : Cardinality({g \in 1..Len(runs) : id \in idsOf(g)}) = 1
           /\ \A g \in 1..Len(runs) :
                /\ Cardinality(idsOf(g)) = Len(runs[g].nodes)
                /\ \E id \in ids : idsOf(g) = ComponentOf(id, edges) \cap ids
                /\ runs[g].edges =
                        SelectSeq(edges, LAMBDA e : e.source \in idsOf(g) /\ e.target \in idsOf(g))

LayoutAlgorithms == {"force-directed", "hierarchical", "clustered", "circular", "grid", "random"}

\* C27: computeLayout with an algorithm that is none of the six known ones
\* raises an error with the code UNKNOWN_ALGORITHM and fires no
\* layout-computed event.
C27_UnknownAlgorithmRaisesUnknownAlgorithm ==
    (layout.pc = "done" /\ layout.fn = "computeLayout" /\ layout.algorithm \notin LayoutAlgorithms)
        => /\ layout.outcome = "UNKNOWN_ALGORITHM"
           /\ layout.fired = 0

\* id is neither changed nor joined to a changed node by an edge of data
Unaffected(id, edges, changedNodes) ==
    /\ id \notin changedNodes
    /\ \A k \in 1..Len(edges) :
        /\ ~(edges[k].source = id /\ edges[k].target \in changedNodes)
        /\ ~(edges[k].target = id /\ edges[k].source \in changedNodes)

\* C28: computeIncrementalLayout never writes to the node objects of
\* previous; its result has the node ids of previous, and a node that is
\* neither changed nor joined to a changed node by an edge of data has in the
\* result exactly the coordinates it has in previous.
C28_IncrementalKeepsUnaffectedNodes ==
    [][layout'.fn = "computeIncrementalLayout" =>
        LET old == layout'.previous.nodes
        IN /\ IF layout.fn # "computeIncrementalLayout"
              THEN \E previous \in PreviousResults :
                        /\ layout'.previous = [previous EXCEPT !.nodes = old]
                        /\ Len(old) = Len(previous.nodes)
                        /\ \A i \in 1..Len(old) : layout'.heap[old[i]] = previous.nodes[i]
              ELSE /\ layout'.previous = layout.previous
                   /\ \A i \in 1..Len(old) : layout'.heap[old[i]] = layout.heap[old[i]]
           /\ layout'.pc = "done" =>
                /\ layout'.outcome = "ok"
                /\ Len(layout'.result.nodes) = Len(old)
                /\ \A i \in 1..Len(old) :
                    LET was == layout'.heap[old[i]]
                        is == layout'.heap[layout'.result.nodes[i]]
                    IN /\ layout'.result.nodes[i] \notin {old[j] : j \in 1..Len(old)}
                       /\ is.id = was.id
                       /\ Unaffected(was.id, layout'.data.edges, layout'.changedNodes)
                            => is.x = was.x /\ is.y = was.y]_vars

\* an incremental layout that moved the changed node a and had b and c to keep
C28_Witness ==
    /\ layout.pc = "done"
    /\ layout.fn = "computeIncrementalLayout"
    /\ layout.changedNodes = {"a"}
    /\ Len(layout.result.nodes) = 3
    /\ layout.heap[layout.result.nodes[1]].y # layout.heap[layout.previous.nodes[1]].y
    /\ Unaffected("b", layout.data.edges, layout.changedNodes)
    /\ Unaffected("c", layout.data.edges, layout.changedNodes)

(* ==================== properties of the CodemapChannel ================= *)
\* C29: at most one cache cleanup timer is scheduled at any time; once the
\* channel is disposed every cache store is empty and neither the cleanup
\* tick nor the metrics tick runs again.
C29_DisposalStopsEveryTimer ==
    [][/\ Cardinality({t \in channel'.timers : t.task = "cleanup"}) <= 1
       /\ channel'.disposed => \A s \in StoreNames : stores'[s] = <<>>
       /\ channel.disposed =>
            /\ ~StepOf("cleanup")
            /\ channel'.metricsFired = channel.metricsFired]_vars

(* ==================== properties of useCodemapData ===================== *)
\* what the hook shows when its latest request has settled
ShowsLatest(h) ==
    LET latest == h.requests[Len(h.requests)]
    IN /\ ~h.loading
       /\ latest.pc = "skipped" =>
            /\ h.data.has
            /\ generateQueryKey(h.data.query) = latest.key
            /\ ~h.error.has
       /\ latest.outcome = "ok" => h.data = [has |-> TRUE, query |-> latest.query,
                                              by |-> Len(h.requests)]
                                   /\ ~h.error.has
       /\ latest.outcome = "callback-throws" =>
            /\ h.data = [has |-> TRUE, query |-> latest.query, by |-> Len(h.requests)]
            /\ h.error = [has |-> TRUE, by |-> Len(h.requests)]
       /\ latest.outcome = "throw" => h.error = [has |-> TRUE, by |-> Len(h.requests)]

\* C30: a request that a later one superseded writes neither data nor error
\* nor the loading flag when it settles; once the latest request has settled
\* the hook shows that request's result (its data, or its error, or for a
\* query identical to the one last shown the data retained) and loading is
\* false; and loading, once true, becomes false again provided the requests
\* settle and the component stays mounted.
C30_SupersededFetchesAreDiscarded ==
    /\ [][/\ \A id \in 1..Len(hook.requests) :
                (/\ hook.requests[id].pc = "awaiting"
                 /\ hook'.requests[id].pc = "settled"
                 /\ id < Len(hook.requests))
                    => /\ hook'.data = hook.data
                       /\ hook'.error = hook.error
                       /\ hook'.loading = hook.loading
                       /\ hook'.lastQueryRef = hook.lastQueryRef
          /\ (/\ hook'.pc = "mounted"
              /\ Len(hook'.requests) > 0
              /\ hook'.requests[Len(hook'.requests)].pc # "awaiting")
                    => ShowsLatest(hook')]_vars
    /\ hook.loading ~> (~hook.loading \/ hook.pc = "gone")

\* the first request settled after the second had started and after it had
\* settled, and the second one's data is what is shown
C30_Witness ==
    /\ hook.pc = "mounted"
    /\ Len(hook.requests) = 2
    /\ hook.requests[1].pc = "settled"
    /\ hook.requests[1].outcome = "ok"
    /\ hook.requests[1].settledAfter = 2
    /\ hook.requests[2].pc = "settled"
    /\ hook.data = [has |-> TRUE, query |-> "q2", by |-> 2]
    /\ ~hook.loading

(* ============ properties of validateQuery and optimizeQuery ============ *)
Reports(errors, message) == \E i \in 1..Len(errors) : errors[i] = message

\* the defects C16 lists
EmptySymbols(query) == query.symbols.has /\ Len(query.symbols.v) = 0
EmptyRelationships(query) == query.relationships.has /\ Len(query.relationships.v) = 0
DepthTooSmall(query) == query.traverse.has /\ query.traverse.depth < 1
DepthTooLarge(query) == query.traverse.has /\ query.traverse.depth > 10
NegativeOffset(query) == query.offset.has /\ query.offset.v < 0
LimitBelowOne(query) == query.limit.has /\ query.limit.v < 1

\* C16: validateQuery reports a violation for an empty select.symbols list,
\* an empty select.relationships list, a traverse.depth below 1 or above 10, a
\* negative offset and any limit below 1, limit = 0 included; it reports none
\* for a query free of these defects; it changes neither the index nor the
\* result cache and executes nothing.
C16_ValidateReportsEachDefect ==
    [][(call.fn = "validateQuery" /\ ~call.done /\ call'.done) =>
        LET query == call.input
            errors == call'.output
        IN /\ EmptySymbols(query) => Reports(errors, "Select symbols cannot be empty")
           /\ EmptyRelationships(query) => Reports(errors, "Select relationships cannot be empty")
           /\ DepthTooSmall(query) => Reports(errors, "Traversal depth must be at least 1")
           /\ DepthTooLarge(query) => Reports(errors, "Traversal depth cannot exceed 10")
           /\ NegativeOffset(query) => Reports(errors, "Offset cannot be negative")
           /\ LimitBelowOne(query) => Reports(errors, "Limit must be at least 1")
           /\ ~(EmptySymbols(query) \/ EmptyRelationships(query) \/ DepthTooSmall(query)
                \/ DepthTooLarge(query) \/ NegativeOffset(query) \/ LimitBelowOne(query))
                => errors = <<>>
           /\ UNCHANGED queryVars]_vars

\* C17: for every query validateQuery accepts, optimizeQuery answers a query
\* with 1 <= limit <= 1000 (1000 when none was given), offset >= 0 (0 when none
\* was given) and, with a traverse clause, 1 <= depth <= 10; optimizing its
\* answer again changes nothing; the argument object is left as it was.
C17_OptimizeNormalizes ==
    [][(/\ call.fn = "optimizeQuery" /\ ~call.done /\ call'.done
        /\ validateQuery(call.input) = <<>>) =>
        LET query == call.input
            optimized == call'.output
        IN /\ optimized.limit.has /\ 1 <= optimized.limit.v /\ optimized.limit.v <= 1000
           /\ ~query.limit.has => optimized.limit.v = 1000
           /\ optimized.offset.has /\ optimized.offset.v >= 0
           /\ ~query.offset.has => optimized.offset.v = 0
           /\ optimized.traverse.has = query.traverse.has
           /\ optimized.traverse.has =>
                (1 <= optimized.traverse.depth /\ optimized.traverse.depth <= 10)
           /\ optimizeQuery(optimized) = optimized
           /\ call'.input = query]_vars

\* an accepted query with a limit above the cap and no offset was optimized
C17_Witness ==
    /\ call.fn = "optimizeQuery"
    /\ call.done
    /\ validateQuery(call.input) = <<>>
    /\ call.input.limit = Some(1001)
    /\ ~call.input.offset.has
    /\ call.input.traverse.has
    /\ call.input.where.has
    /\ call.output.limit = Some(1000)

(* ===================== properties of useGraphLayout =================== *)
\* C40: the layout and quality state of useGraphLayout are written only by the
\* computeLayout request issued last: when a step changes one of them, the
\* request that wrote it is the most recent one
C40_SupersededRequestsAreDiscarded ==
    [][/\ layoutHook'.layout # layoutHook.layout => layoutHook'.layout.by = layoutHook'.issued
       /\ layoutHook'.quality # layoutHook.quality => layoutHook'.quality.by = layoutHook'.issued]_vars

====
